---- MODULE Spec2Model ----
(***************************************************************************)
(* A model of aiopath's POSIX path resolution (flavours.py), of its glob   *)
(* selector engine (selectors.py, path.py), of the offset its file handle  *)
(* keeps (handle.py), of the Windows path resolution (flavours.py) and of  *)
(* mkdir and of reading and writing a whole file (path.py).                *)
(*                                                                         *)
(* A string is a sequence of tokens: the separator "/", the special        *)
(* components "." and "..", and the file names of Names.  In a path two    *)
(* tokens that are not separators are never adjacent, so the tokens        *)
(* between two separators are the components str.split(sep) returns; a     *)
(* glob pattern is a sequence of characters between separators.            *)
(***************************************************************************)
EXTENDS Integers, Sequences, FiniteSets, TLC

VARIABLES fs, rc, gc, fh, win, mk, rw

vars == <<fs, rc, gc, fh, win, mk, rw>>

sep == "/"
dot == "."
dotdot == ".."
Names == {"a", "b"}
None == <<"None">>
Root == <<>>

\* The number of components of a path handed to resolve().
MaxInputLen == 3

----------------------------------------------------------------------------
(* Python string operations used by _resolve *)

StartsWithSep(s) == Len(s) > 0 /\ s[1] = sep
EndsWithSep(s) == Len(s) > 0 /\ s[Len(s)] = sep

RECURSIVE SplitAcc(_, _, _)
SplitAcc(s, done, cur) ==
  IF s = <<>> THEN Append(done, cur)
  ELSE IF Head(s) = sep THEN SplitAcc(Tail(s), Append(done, cur), <<>>)
  ELSE SplitAcc(Tail(s), done, Append(cur, Head(s)))

\* rest.split(sep): the components between the separators; <<>> is ''
Split(s) == SplitAcc(s, <<>>, <<>>)

LastSep(s) ==
  IF \E i \in 1..Len(s) : s[i] = sep
  THEN CHOOSE i \in 1..Len(s) : s[i] = sep /\ \A j \in (i+1)..Len(s) : s[j] # sep
  ELSE 0

\* path.rpartition(sep)[0]: what precedes the last separator, '' without one
RPartitionHead(s) ==
  IF LastSep(s) = 0 THEN <<>> ELSE SubSeq(s, 1, LastSep(s) - 1)

\* newpath = path + name if path ends with sep, else path + sep + name
JoinName(path, name) ==
  IF EndsWithSep(path) THEN path \o name ELSE path \o <<sep>> \o name

RECURSIVE JoinSep(_)
\* sep.join(parts)
JoinSep(parts) ==
  IF parts = <<>> THEN <<>>
  ELSE IF Len(parts) = 1 THEN parts[1]
  ELSE parts[1] \o <<sep>> \o JoinSep(Tail(parts))

IsNoOp(c) == c = <<>> \/ c = <<dot>>

\* str(AsyncPath(raw)): pathlib drops '' and '.' components, keeps '..'
PurePathStr(raw) ==
  LET parts == SelectSeq(Split(raw), LAMBDA c : ~IsNoOp(c))
      root == IF StartsWithSep(raw) THEN <<sep>> ELSE <<>>
  IN IF root = <<>> /\ parts = <<>> THEN <<dot>> ELSE root \o JoinSep(parts)

IsAbsolute(raw) == StartsWithSep(raw)

RECURSIVE NormComps(_, _, _)
NormComps(comps, abs, new) ==
  IF comps = <<>> THEN new
  ELSE LET c == Head(comps) IN
    IF IsNoOp(c) THEN NormComps(Tail(comps), abs, new)
    ELSE IF c # <<dotdot>> \/ (~abs /\ new = <<>>)
              \/ (new # <<>> /\ new[Len(new)] = <<dotdot>>)
         THEN NormComps(Tail(comps), abs, Append(new, c))
    ELSE IF new # <<>> THEN NormComps(Tail(comps), abs, SubSeq(new, 1, Len(new) - 1))
    ELSE NormComps(Tail(comps), abs, new)

\* posixpath.normpath(s), for s without a double leading slash
NormPath(s) ==
  LET abs == StartsWithSep(s)
      p == (IF abs THEN <<sep>> ELSE <<>>) \o JoinSep(NormComps(Split(s), abs, <<>>))
  IN IF p = <<>> THEN <<dot>> ELSE p

----------------------------------------------------------------------------
(* The filesystem: a tree of nodes addressed by their canonical path, a    *)
(* sequence of names below the root directory.                             *)

Slots == {<<"a">>, <<"b">>, <<"b", "a">>}

Parent(p) == IF p = <<>> THEN <<>> ELSE SubSeq(p, 1, Len(p) - 1)

Targets ==
  { <<"a">>, <<"b">>, <<"b", sep, "a">>, <<sep, "b", sep, "a">>,
    <<"b", sep, "a", sep, "a">>, <<dotdot>>, <<dot>> }

Node(k, t) == [kind |-> k, target |-> t]

\* "locked" is a directory without read and search permission, "faulty" a
\* directory whose listing fails with an input/output error
NodeChoices ==
  {Node("none", <<>>), Node("file", <<>>), Node("dir", <<>>), Node("locked", <<>>),
   Node("faulty", <<>>)}
    \cup {Node("link", t) : t \in Targets}

WellFormed(f) ==
  /\ \A p \in Slots : (Len(p) > 1 /\ f[p].kind # "none") => f[Parent(p)].kind = "dir"
  /\ \A p \in Slots : f[p].kind = "faulty" => p = <<"a">>

\* the kinds whose st_mode is that of a directory
DirKinds == {"dir", "locked", "faulty"}

FileSystems == {f \in [Slots -> NodeChoices] : WellFormed(f)}

NodeKind(f, p) ==
  IF p = Root THEN "dir" ELSE IF p \in DOMAIN f THEN f[p].kind ELSE "none"

\* nested symlink expansions the lookup follows before it reports ELOOP
KernelFuel == Cardinality(Slots) + 1

KRes(e, n) == [err |-> e, node |-> n]

RECURSIVE KWalk(_, _, _, _, _)
\* The operating system's path walk from directory cur over comps.
KWalk(f, cur, comps, followLast, fuel) ==
  IF comps = <<>> THEN KRes("OK", cur)
  ELSE LET c == Head(comps)
           rest == Tail(comps)
       IN
    IF NodeKind(f, cur) = "locked" THEN KRes("EACCES", cur)
    ELSE IF NodeKind(f, cur) \notin {"dir", "faulty"} THEN KRes("ENOTDIR", cur)
    ELSE IF IsNoOp(c) THEN KWalk(f, cur, rest, followLast, fuel)
    ELSE IF c = <<dotdot>> THEN KWalk(f, Parent(cur), rest, followLast, fuel)
    ELSE LET child == Append(cur, c[1])
             kind == NodeKind(f, child)
         IN
      IF kind = "none" THEN KRes("ENOENT", child)
      ELSE IF kind = "link" /\ (rest # <<>> \/ followLast)
      THEN IF fuel = 0 THEN KRes("ELOOP", child)
           ELSE LET t == f[child].target
                    r == KWalk(f, IF StartsWithSep(t) THEN Root ELSE cur,
                               Split(t), TRUE, fuel - 1)
                IN IF r.err # "OK" THEN r
                   ELSE KWalk(f, r.node, rest, followLast, fuel)
      ELSE KWalk(f, child, rest, followLast, fuel)

\* os.lstat / os.stat of an absolute path string
Lookup(f, s, follow) == KWalk(f, Root, Split(s), follow, KernelFuel)

\* accessor.readlink(newpath)
Readlink(f, s) ==
  LET r == Lookup(f, s, FALSE) IN
    IF r.err # "OK" THEN [err |-> r.err, target |-> <<>>]
    ELSE IF NodeKind(f, r.node) = "link"
         THEN [err |-> "OK", target |-> f[r.node].target]
         ELSE [err |-> "EINVAL", target |-> <<>>]

\* the path string of a node
NodeStr(p) == <<sep>> \o JoinSep([i \in 1..Len(p) |-> <<p[i]>>])

\* os.getcwd() returns a directory none of whose components is a symlink
RealDirs(f) == {Root} \cup {p \in Slots :
                  \A i \in 1..Len(p) : f[SubSeq(p, 1, i)].kind = "dir"}

----------------------------------------------------------------------------
(* _AsyncPosixFlavour.resolve: one record per call.  stack holds the       *)
(* frames of the nested _resolve coroutines, the running one last; seen is *)
(* the call's dict; entered and reads record, in order, the candidates     *)
(* marked None and the paths handed to readlink.                           *)

\* A and B are calls in flight together, R a call made with no other in flight
CallIds == {"A", "B", "R"}

IdleCall ==
  [st |-> "idle", strict |-> FALSE, input |-> <<>>, stack |-> <<>>,
   seen |-> <<>>, fres |-> None, result |-> None, err |-> "", errpath |-> <<>>,
   entered |-> <<>>, reads |-> <<>>, round |-> 0, first |-> None,
   origin |-> <<>>]

\* _resolve(path, rest) is entered: an absolute rest restarts from ''
EnterFrame(path, rest) ==
  [path |-> IF StartsWithSep(rest) THEN <<>> ELSE path,
   names |-> Split(rest), newpath |-> <<>>]

\* origin is the absolute text of the path of the first call (base joined
\* with it), first the path that call returned
StartCall(raw, strict, base, round, first, origin) ==
  [IdleCall EXCEPT !.st = "running", !.strict = strict,
                   !.input = PurePathStr(raw),
                   !.stack = <<EnterFrame(base, PurePathStr(raw))>>,
                   !.round = round, !.first = first, !.origin = origin]

Running(c) == rc[c].st = "running" /\ rc[c].stack # <<>>
Top(c) == rc[c].stack[Len(rc[c].stack)]
SetTop(r, fr) == [r EXCEPT !.stack[Len(r.stack)] = fr]
Candidate(c) == JoinName(Top(c).path, Head(Top(c).names))
IsName(n) == ~IsNoOp(n) /\ n # <<dotdot>>

\* d[k] = v on a dict
DictSet(d, k, v) == [x \in DOMAIN d \cup {k} |-> IF x = k THEN v ELSE d[x]]

Raise(r, e, p) == [r EXCEPT !.st = "raised", !.stack = <<>>, !.err = e, !.errpath = p]

RawInputs ==
  LET Comps == {<<n>> : n \in Names} \cup {<<dotdot>>, <<dot>>}
      Seqs == UNION {[1..n -> Comps] : n \in 1..MaxInputLen}
  IN {JoinSep(q) : q \in Seqs} \cup {<<sep>> \o JoinSep(q) : q \in Seqs}

\* await path.resolve(strict): base is '' or getcwd()
ResolveStart(c) ==
  /\ rc[c].st = "idle"
  /\ \E raw \in RawInputs, strict \in BOOLEAN :
       \E cwd \in (IF IsAbsolute(raw) THEN {Root} ELSE RealDirs(fs)) :
         rc' = [rc EXCEPT ![c] =
                  StartCall(raw, strict,
                            IF IsAbsolute(raw) THEN <<>> ELSE NodeStr(cwd), 1, None,
                            IF IsAbsolute(raw) THEN PurePathStr(raw)
                            ELSE JoinName(NodeStr(cwd), PurePathStr(raw)))]
  /\ UNCHANGED <<fs, gc, fh, win, mk, rw>>

\* the branch conditions of the loop body of _resolve
AtName(c) == Running(c) /\ Top(c).names # <<>>
AtEnd(c) == Running(c) /\ Top(c).names = <<>>
IsSkip(c) == AtName(c) /\ IsNoOp(Head(Top(c).names))
IsParent(c) == AtName(c) /\ Head(Top(c).names) = <<dotdot>>
InSeen(c) ==
  AtName(c) /\ IsName(Head(Top(c).names)) /\ Candidate(c) \in DOMAIN rc[c].seen
IsCached(c) == InSeen(c) /\ rc[c].seen[Candidate(c)] # None
IsLoop(c) == InSeen(c) /\ rc[c].seen[Candidate(c)] = None
NotSeen(c) ==
  AtName(c) /\ IsName(Head(Top(c).names)) /\ Candidate(c) \notin DOMAIN rc[c].seen
ReadsLink(c) == NotSeen(c) /\ Readlink(fs, Candidate(c)).err = "OK"
ReadRaises(c) ==
  /\ NotSeen(c)
  /\ Readlink(fs, Candidate(c)).err \notin {"OK", "EINVAL"}
  /\ rc[c].strict
ReadKeeps(c) ==
  /\ NotSeen(c)
  /\ Readlink(fs, Candidate(c)).err # "OK"
  /\ Readlink(fs, Candidate(c)).err = "EINVAL" \/ ~rc[c].strict
Returns(c) == AtEnd(c) /\ Len(rc[c].stack) > 1
Finishes(c) == AtEnd(c) /\ Len(rc[c].stack) = 1

\* '' and '.': continue
ResolveSkip(c) ==
  /\ IsSkip(c)
  /\ rc' = [rc EXCEPT ![c] = SetTop(rc[c], [Top(c) EXCEPT !.names = Tail(@)])]
  /\ UNCHANGED <<fs, gc, fh, win, mk, rw>>

\* '..': path, _, _ = path.rpartition(sep)
ResolveParent(c) ==
  /\ IsParent(c)
  /\ rc' = [rc EXCEPT ![c] =
              SetTop(rc[c], [Top(c) EXCEPT !.names = Tail(@),
                                       !.path = RPartitionHead(@)])]
  /\ UNCHANGED <<fs, gc, fh, win, mk, rw>>

\* mutant: a cache hit drops the component and keeps the accumulated path
ResolveCachedDropped(c) ==
  /\ IsCached(c)
  /\ rc' = [rc EXCEPT ![c] = SetTop(rc[c], [Top(c) EXCEPT !.names = Tail(@)])]
  /\ UNCHANGED <<fs, gc, fh, win, mk, rw>>

\* mutant: a cache hit keeps the candidate itself
ResolveCachedLiteral(c) ==
  /\ IsCached(c)
  /\ rc' = [rc EXCEPT ![c] =
              SetTop(rc[c], [Top(c) EXCEPT !.names = Tail(@),
                                       !.path = Candidate(c)])]
  /\ UNCHANGED <<fs, gc, fh, win, mk, rw>>

\* newpath in seen, with a resolved value: path = seen[newpath]
ResolveCached(c) ==
  /\ IsCached(c)
  /\ rc' = [rc EXCEPT ![c] =
              SetTop(rc[c], [Top(c) EXCEPT !.names = Tail(@),
                                       !.path = rc[c].seen[Candidate(c)]])]
  /\ UNCHANGED <<fs, gc, fh, win, mk, rw>>

\* mutant: the loop error names the accumulated path, not the candidate
ResolveLoopNamesPath(c) ==
  /\ IsLoop(c)
  /\ rc' = [rc EXCEPT ![c] = Raise(rc[c], "RuntimeError", Top(c).path)]
  /\ UNCHANGED <<fs, gc, fh, win, mk, rw>>

\* mutant: the loop is an error in strict mode only, else a literal segment
ResolveLoopStrictOnly(c) ==
  /\ IsLoop(c)
  /\ rc' = [rc EXCEPT ![c] =
              IF rc[c].strict THEN Raise(rc[c], "RuntimeError", Candidate(c))
              ELSE SetTop(rc[c], [Top(c) EXCEPT !.names = Tail(@),
                                               !.path = Candidate(c)])]
  /\ UNCHANGED <<fs, gc, fh, win, mk, rw>>

\* newpath in seen, still None: raise RuntimeError("Symlink loop from ...")
ResolveLoop(c) ==
  /\ IsLoop(c)
  /\ rc' = [rc EXCEPT ![c] = Raise(rc[c], "RuntimeError", Candidate(c))]
  /\ UNCHANGED <<fs, gc, fh, win, mk, rw>>

\* mutant: the target is resolved against the path of the symlink itself
ResolveSymlinkFromLink(c) ==
  /\ ReadsLink(c)
  /\ rc' = [rc EXCEPT ![c] =
              [rc[c] EXCEPT
                 !.stack = Append(SetTop(rc[c], [Top(c) EXCEPT !.names = Tail(@),
                                                   !.newpath = Candidate(c)]).stack,
                                  EnterFrame(Candidate(c),
                                             Readlink(fs, Candidate(c)).target)),
                 !.seen = DictSet(@, Candidate(c), None),
                 !.entered = Append(@, Candidate(c)),
                 !.reads = Append(@, Candidate(c))]]
  /\ UNCHANGED <<fs, gc, fh, win, mk, rw>>

\* mutant: seen is one dict of the module, marked in every running call
ResolveSymlinkShared(c) ==
  /\ ReadsLink(c)
  /\ rc' = [d \in CallIds |->
              IF d = c
              THEN [rc[c] EXCEPT
                      !.stack = Append(SetTop(rc[c], [Top(c) EXCEPT !.names = Tail(@),
                                                        !.newpath = Candidate(c)]).stack,
                                       EnterFrame(Top(c).path,
                                                  Readlink(fs, Candidate(c)).target)),
                      !.seen = DictSet(@, Candidate(c), None),
                      !.entered = Append(@, Candidate(c)),
                      !.reads = Append(@, Candidate(c))]
              ELSE IF rc[d].st = "running"
                   THEN [rc[d] EXCEPT !.seen = DictSet(@, Candidate(c), None)]
                   ELSE rc[d]]
  /\ UNCHANGED <<fs, gc, fh, win, mk, rw>>

\* mutant: the candidate is not marked None before the recursion
ResolveSymlinkUnmarked(c) ==
  /\ ReadsLink(c)
  /\ rc' = [rc EXCEPT ![c] =
              [rc[c] EXCEPT
                 !.stack = Append(SetTop(rc[c], [Top(c) EXCEPT !.names = Tail(@),
                                                   !.newpath = Candidate(c)]).stack,
                                  EnterFrame(Top(c).path,
                                             Readlink(fs, Candidate(c)).target)),
                 !.entered = Append(@, Candidate(c)),
                 !.reads = Append(@, Candidate(c))]]
  /\ UNCHANGED <<fs, gc, fh, win, mk, rw>>

\* readlink succeeds: seen[newpath] = None, then await _resolve(path, target)
ResolveSymlink(c) ==
  /\ ReadsLink(c)
  /\ rc' = [rc EXCEPT ![c] =
              [rc[c] EXCEPT
                 !.stack = Append(SetTop(rc[c], [Top(c) EXCEPT !.names = Tail(@),
                                                   !.newpath = Candidate(c)]).stack,
                                  EnterFrame(Top(c).path,
                                             Readlink(fs, Candidate(c)).target)),
                 !.seen = DictSet(@, Candidate(c), None),
                 !.entered = Append(@, Candidate(c)),
                 !.reads = Append(@, Candidate(c))]]
  /\ UNCHANGED <<fs, gc, fh, win, mk, rw>>

\* mutant: the error of readlink is swallowed in strict mode too
ResolveRaiseSwallowed(c) ==
  /\ ReadRaises(c)
  /\ rc' = [rc EXCEPT ![c] =
              SetTop([rc[c] EXCEPT !.reads = Append(@, Candidate(c))],
                     [Top(c) EXCEPT !.names = Tail(@), !.path = Candidate(c)])]
  /\ UNCHANGED <<fs, gc, fh, win, mk, rw>>

\* readlink fails with an errno other than EINVAL in strict mode: raise
ResolveRaise(c) ==
  /\ ReadRaises(c)
  /\ rc' = [rc EXCEPT ![c] =
              Raise([rc[c] EXCEPT !.reads = Append(@, Candidate(c))],
                    Readlink(fs, Candidate(c)).err, Candidate(c))]
  /\ UNCHANGED <<fs, gc, fh, win, mk, rw>>

\* mutant: the candidate is not appended to the accumulated path
ResolveLiteralDropped(c) ==
  /\ ReadKeeps(c)
  /\ rc' = [rc EXCEPT ![c] =
              SetTop([rc[c] EXCEPT !.reads = Append(@, Candidate(c))],
                     [Top(c) EXCEPT !.names = Tail(@)])]
  /\ UNCHANGED <<fs, gc, fh, win, mk, rw>>

\* readlink fails with EINVAL, or with anything when not strict: path = newpath
ResolveLiteral(c) ==
  /\ ReadKeeps(c)
  /\ rc' = [rc EXCEPT ![c] =
              SetTop([rc[c] EXCEPT !.reads = Append(@, Candidate(c))],
                     [Top(c) EXCEPT !.names = Tail(@), !.path = Candidate(c)])]
  /\ UNCHANGED <<fs, gc, fh, win, mk, rw>>

\* mutant: the result of the recursion is not stored in seen
ResolveReturnUnstored(c) ==
  /\ Returns(c)
  /\ LET caller == rc[c].stack[Len(rc[c].stack) - 1] IN
       rc' = [rc EXCEPT ![c] =
                [rc[c] EXCEPT
                   !.stack = Append(SubSeq(@, 1, Len(@) - 2),
                                    [caller EXCEPT !.path = Top(c).path,
                                                   !.newpath = <<>>])]]
  /\ UNCHANGED <<fs, gc, fh, win, mk, rw>>

\* mutant: the caller continues from the symlink, not from its resolution
ResolveReturnKeepsLink(c) ==
  /\ Returns(c)
  /\ LET caller == rc[c].stack[Len(rc[c].stack) - 1] IN
       rc' = [rc EXCEPT ![c] =
                [rc[c] EXCEPT
                   !.stack = Append(SubSeq(@, 1, Len(@) - 2),
                                    [caller EXCEPT !.path = caller.newpath,
                                                   !.newpath = <<>>]),
                   !.seen = DictSet(@, caller.newpath, caller.newpath)]]
  /\ UNCHANGED <<fs, gc, fh, win, mk, rw>>

\* a nested _resolve returns: path = <its result>; seen[newpath] = path
ResolveReturn(c) ==
  /\ Returns(c)
  /\ LET caller == rc[c].stack[Len(rc[c].stack) - 1] IN
       rc' = [rc EXCEPT ![c] =
                [rc[c] EXCEPT
                   !.stack = Append(SubSeq(@, 1, Len(@) - 2),
                                    [caller EXCEPT !.path = Top(c).path,
                                                   !.newpath = <<>>]),
                   !.seen = DictSet(@, caller.newpath, Top(c).path)]]
  /\ UNCHANGED <<fs, gc, fh, win, mk, rw>>

\* mutant: return result
FlavourResultRaw(path) == path

\* return result or sep
FlavourResult(path) == IF path = <<>> THEN <<sep>> ELSE path

\* AsyncPath.resolve: the returned path is _from_parts((normpath(s),))
PathResult(s) == PurePathStr(NormPath(s))

\* the outermost _resolve returns
ResolveFinish(c) ==
  /\ Finishes(c)
  /\ rc' = [rc EXCEPT ![c] =
              [rc[c] EXCEPT !.st = "done", !.stack = <<>>,
                        !.fres = FlavourResult(Top(c).path),
                        !.result = PathResult(FlavourResult(Top(c).path))]]
  /\ UNCHANGED <<fs, gc, fh, win, mk, rw>>

\* resolve() called on the path a first resolve() returned
ResolveAgain(c) ==
  /\ rc[c].st = "done" /\ rc[c].round = 1
  /\ rc' = [rc EXCEPT ![c] =
              StartCall(rc[c].result, rc[c].strict, <<>>, 2, rc[c].result,
                        rc[c].origin)]
  /\ UNCHANGED <<fs, gc, fh, win, mk, rw>>

ResolveStep(c) ==
  \/ ResolveSkip(c)
  \/ ResolveParent(c)
  \/ ResolveCached(c)
  \/ ResolveLoop(c)
  \/ ResolveSymlink(c)
  \/ ResolveRaise(c)
  \/ ResolveLiteral(c)
  \/ ResolveReturn(c)
  \/ ResolveFinish(c)

----------------------------------------------------------------------------
(* glob and rglob: the pattern and the selectors compiled from it.  A      *)
(* pattern is a sequence of characters; a file name is one character.      *)

star == "*"
StarStar == <<star, star>>

\* the number of components of a pattern handed to glob() and rglob()
MaxPatLen == 2

PatComps ==
  { StarStar, <<star>>, <<"a">>, <<"b">>,
    <<star, star, "a">>, <<"a", star, star, "b">> }

\* one-component patterns that match some names and not others
WildPatterns == { <<"a", star>> }

Patterns ==
  LET Seqs == UNION {[1..n -> PatComps] : n \in 1..MaxPatLen}
  IN {<<>>} \cup WildPatterns
       \cup {JoinSep(q) : q \in Seqs} \cup {<<sep>> \o JoinSep(q) : q \in Seqs}

\* '**' in pat
HasStarStar(pat) ==
  \E i \in 1..(Len(pat) - 1) : pat[i] = star /\ pat[i + 1] = star

\* pathlib._is_wildcard_pattern(pat)
IsWildcardPattern(pat) == \E i \in 1..Len(pat) : pat[i] \in {"*", "?", "["}

RECURSIVE FnMatch(_, _)
\* flavour.compile_pattern(pat)(name): '*' is any run of characters, '?' one
FnMatch(pat, name) ==
  IF pat = <<>> THEN name = <<>>
  ELSE IF Head(pat) = star
       THEN FnMatch(Tail(pat), name) \/ (name # <<>> /\ FnMatch(pat, Tail(name)))
  ELSE /\ name # <<>>
       /\ (Head(pat) = "?" \/ Head(pat) = Head(name))
       /\ FnMatch(Tail(pat), Tail(name))

\* the class _make_selector picks for a component
SelectorKind(pat) ==
  IF pat = StarStar THEN "R"
  ELSE IF HasStarStar(pat) THEN "invalid"
  ELSE IF IsWildcardPattern(pat) THEN "W"
  ELSE "P"

Compiled(e, sel) == [err |-> e, sel |-> sel]

\* mutant: the successor chain is not built when the selector is made
MakeSelectorFirstOnly(parts) ==
  IF parts = <<>> THEN Compiled("IndexError", <<>>)
  ELSE IF SelectorKind(Head(parts)) = "invalid" THEN Compiled("ValueError", <<>>)
  ELSE Compiled("OK", [i \in 1..Len(parts) |->
                         [kind |-> IF SelectorKind(parts[i]) = "invalid" THEN "W"
                                   ELSE SelectorKind(parts[i]),
                          pat |-> parts[i], dironly |-> i < Len(parts)]])

RECURSIVE MakeSelector(_)
\* _make_selector(pattern_parts): the selector of the first component, whose
\* constructor makes the selectors of the child parts; the last one has
\* dironly false and the terminating selector as successor
MakeSelector(parts) ==
  IF parts = <<>> THEN Compiled("IndexError", <<>>)
  ELSE LET kind == SelectorKind(Head(parts)) IN
    IF kind = "invalid" THEN Compiled("ValueError", <<>>)
    ELSE IF Tail(parts) = <<>>
    THEN Compiled("OK", <<[kind |-> kind, pat |-> Head(parts), dironly |-> FALSE]>>)
    ELSE LET rest == MakeSelector(Tail(parts)) IN
      IF rest.err # "OK" THEN rest
      ELSE Compiled("OK", <<[kind |-> kind, pat |-> Head(parts), dironly |-> TRUE]>>
                            \o rest.sel)

\* flavour.parse_parts((pattern,)): the root and the components, '' and '.'
\* dropped
PatternRoot(pattern) == StartsWithSep(pattern)
PatternParts(pattern) == SelectSeq(Split(pattern), LAMBDA c : ~IsNoOp(c))

\* mutant: the pattern's root is not looked at
CompileAnyRoot(kind, pattern) ==
  IF kind = "glob" /\ pattern = <<>> THEN Compiled("ValueError", <<>>)
  ELSE IF kind = "glob" THEN MakeSelector(PatternParts(pattern))
  ELSE MakeSelector(<<StarStar>> \o PatternParts(pattern))

\* mutant: rglob compiles the pattern as glob does, without the leading '**'
CompileRglobPlain(kind, pattern) ==
  IF kind = "glob" /\ pattern = <<>> THEN Compiled("ValueError", <<>>)
  ELSE IF PatternRoot(pattern) THEN Compiled("NotImplementedError", <<>>)
  ELSE MakeSelector(PatternParts(pattern))

\* what glob(pattern) and rglob(pattern) do before they select
Compile(kind, pattern) ==
  IF kind = "glob" /\ pattern = <<>> THEN Compiled("ValueError", <<>>)
  ELSE IF PatternRoot(pattern) THEN Compiled("NotImplementedError", <<>>)
  ELSE IF kind = "glob" THEN MakeSelector(PatternParts(pattern))
  ELSE MakeSelector(<<StarStar>> \o PatternParts(pattern))

----------------------------------------------------------------------------
(* The accessor calls of the selectors *)

IgnoredErrors == {"ENOENT", "ENOTDIR", "EBADF", "ELOOP"}
Answer(e, v) == [err |-> e, val |-> v]

\* AsyncPath.is_dir(): stat, the ignored errors answer False
IsDir(f, s) ==
  LET r == Lookup(f, s, TRUE) IN
    IF r.err = "OK" THEN Answer("OK", NodeKind(f, r.node) \in DirKinds)
    ELSE IF r.err \in IgnoredErrors THEN Answer("OK", FALSE)
    ELSE Answer(r.err, FALSE)

\* AsyncPath.exists()
PathExists(f, s) ==
  LET r == Lookup(f, s, TRUE) IN
    IF r.err = "OK" THEN Answer("OK", TRUE)
    ELSE IF r.err \in IgnoredErrors THEN Answer("OK", FALSE)
    ELSE Answer(r.err, FALSE)

NameOrder == <<"a", "b">>

\* Listing(e, names, open): what a call that lists a directory gives the
\* coroutine, and the directory handles it leaves open
Listing(e, names, open) == [err |-> e, names |-> names, open |-> open]

\* mutant: the entries are handed out while the directory is being read
ScandirLazy(f, s) ==
  LET r == Lookup(f, s, TRUE) IN
    IF r.err # "OK" THEN Listing(r.err, <<>>, 0)
    ELSE IF NodeKind(f, r.node) = "locked" THEN Listing("EACCES", <<>>, 0)
    ELSE IF NodeKind(f, r.node) = "faulty" THEN Listing("EIO", <<>>, 0)
    ELSE IF NodeKind(f, r.node) # "dir" THEN Listing("ENOTDIR", <<>>, 0)
    ELSE Listing("OK",
                 SelectSeq(NameOrder,
                           LAMBDA n : NodeKind(f, Append(r.node, n)) # "none"),
                 1)

\* scandir_async(path): os.scandir opens the directory, list() reads it to
\* the end in one call in a thread, which closes it, and the entries are
\* handed out from the list
Scandir(f, s) ==
  LET r == Lookup(f, s, TRUE) IN
    IF r.err # "OK" THEN Listing(r.err, <<>>, 0)
    ELSE IF NodeKind(f, r.node) = "locked" THEN Listing("EACCES", <<>>, 0)
    ELSE IF NodeKind(f, r.node) = "faulty" THEN Listing("EIO", <<>>, 0)
    ELSE IF NodeKind(f, r.node) # "dir" THEN Listing("ENOTDIR", <<>>, 0)
    ELSE Listing("OK",
                 SelectSeq(NameOrder,
                           LAMBDA n : NodeKind(f, Append(r.node, n)) # "none"),
                 0)

\* entry.is_dir(): os.DirEntry answers False for a missing target
EntryIsDir(f, s, name) ==
  LET r == Lookup(f, JoinName(s, <<name>>), TRUE) IN
    IF r.err = "OK" THEN Answer("OK", NodeKind(f, r.node) \in DirKinds)
    ELSE IF r.err = "ENOENT" THEN Answer("OK", FALSE)
    ELSE Answer(r.err, FALSE)

\* entry.is_symlink()
EntryIsSymlink(f, s, name) ==
  LET r == Lookup(f, JoinName(s, <<name>>), FALSE) IN
    r.err = "OK" /\ NodeKind(f, r.node) = "link"

----------------------------------------------------------------------------
(* One record per glob()/rglob() call.  stack holds the suspended          *)
(* generators, from select_from down to the running _select_from; the      *)
(* frame of a recursive selector holds in dstack the nested                *)
(* _iterate_directories generators.  out is what the caller was handed.    *)

GIdle ==
  [st |-> "idle", kind |-> "", pattern |-> <<>>, sel |-> <<>>, root |-> <<>>,
   stack |-> <<>>, out |-> <<>>, ncalls |-> 0, steps |-> 0, err |-> "",
   handles |-> 0]

Frame(k, i, p, pc, ds) ==
  [kind |-> k, idx |-> i, path |-> p, pc |-> pc, entries |-> <<>>,
   dstack |-> ds, yielded |-> {}]

DFrame(p) == [path |-> p, pc |-> "start", entries |-> <<>>]

\* selector.select_from(root)
SFrame(root) == Frame("S", 0, root, "isdir", <<>>)

\* the _select_from generator of selector i of the chain, on path p
NewFrame(sel, i, p) ==
  IF i > Len(sel) THEN Frame("T", i, p, "start", <<>>)
  ELSE IF sel[i].kind = "R" THEN Frame("R", i, p, "next", <<DFrame(p)>>)
  ELSE Frame(sel[i].kind, i, p, "start", <<>>)

\* the paths glob() and rglob() are called on
GlobRoots == {NodeStr(p) : p \in {Root} \cup {s \in Slots : Len(s) = 1}}

GRunning(c) == gc[c].st = "running" /\ gc[c].stack # <<>>
GTop(c) == gc[c].stack[Len(gc[c].stack)]
DTop(c) == GTop(c).dstack[Len(GTop(c).dstack)]
GSel(c) == gc[c].sel[GTop(c).idx]
ReplTop(stack, fr) == [stack EXCEPT ![Len(stack)] = fr]
Pop(q) == SubSeq(q, 1, Len(q) - 1)

\* the call goes on with this stack after calls accessor calls
GNext(g, stack, calls) ==
  [g EXCEPT !.stack = stack, !.ncalls = @ + calls, !.steps = @ + 1]

\* an exception no generator catches reaches the caller
GRaise(g, e, calls) ==
  [g EXCEPT !.st = "raised", !.stack = <<>>, !.err = e,
            !.ncalls = @ + calls, !.steps = @ + 1]

\* mutant: a recursive selector passes on every path it is handed
BubbleAll(stack, i, p) == [stack |-> stack, delivered |-> TRUE]

RECURSIVE Bubble(_, _, _)
\* p is yielded to frame i and passed up: a recursive selector passes it on
\* unless it is in its yielded set, and adds it
Bubble(stack, i, p) ==
  IF i = 0 THEN [stack |-> stack, delivered |-> TRUE]
  ELSE IF stack[i].kind = "R"
       THEN IF p \in stack[i].yielded
            THEN [stack |-> stack, delivered |-> FALSE]
            ELSE Bubble([stack EXCEPT ![i].yielded = @ \cup {p}], i - 1, p)
  ELSE Bubble(stack, i - 1, p)

\* glob(pattern) or rglob(pattern) raises while it compiles the pattern
GlobReject(c) ==
  /\ gc[c].st = "idle"
  /\ \E kind \in {"glob", "rglob"}, pattern \in Patterns, root \in GlobRoots :
       /\ Compile(kind, pattern).err # "OK"
       /\ gc' = [gc EXCEPT ![c] =
                   [GIdle EXCEPT !.st = "raised", !.kind = kind,
                                 !.pattern = pattern, !.root = root,
                                 !.err = Compile(kind, pattern).err]]
  /\ UNCHANGED <<fs, rc, fh, win, mk, rw>>

\* glob(pattern) or rglob(pattern) compiles and calls selector.select_from(self)
GlobStart(c) ==
  /\ gc[c].st = "idle"
  /\ \E kind \in {"glob", "rglob"}, pattern \in Patterns, root \in GlobRoots :
       /\ Compile(kind, pattern).err = "OK"
       /\ gc' = [gc EXCEPT ![c] =
                   [GIdle EXCEPT !.st = "running", !.kind = kind,
                                 !.pattern = pattern, !.root = root,
                                 !.sel = Compile(kind, pattern).sel,
                                 !.stack = <<SFrame(root)>>]]
  /\ UNCHANGED <<fs, rc, fh, win, mk, rw>>

\* the guards of the steps
AtIsDir(c) == GRunning(c) /\ GTop(c).kind = "S" /\ GTop(c).pc = "isdir"
AtTerm(c) == GRunning(c) /\ GTop(c).kind = "T" /\ GTop(c).pc = "start"
AtPrecise(c) == GRunning(c) /\ GTop(c).kind = "P" /\ GTop(c).pc = "start"
AtScan(c) == GRunning(c) /\ GTop(c).kind = "W" /\ GTop(c).pc = "start"
AtEntry(c) ==
  GRunning(c) /\ GTop(c).kind = "W" /\ GTop(c).pc = "loop" /\ GTop(c).entries # <<>>
AtDirs(c) == GRunning(c) /\ GTop(c).kind = "R" /\ GTop(c).dstack # <<>>
AtDirYield(c) == AtDirs(c) /\ DTop(c).pc = "start"
AtDirScan(c) == AtDirs(c) /\ DTop(c).pc = "scan"
AtDirEntry(c) == AtDirs(c) /\ DTop(c).pc = "loop" /\ DTop(c).entries # <<>>
AtDirEnd(c) == AtDirs(c) /\ DTop(c).pc = "loop" /\ DTop(c).entries = <<>>
AtReturn(c) ==
  /\ GRunning(c)
  /\ \/ GTop(c).pc = "done"
     \/ GTop(c).kind = "W" /\ GTop(c).pc = "loop" /\ GTop(c).entries = <<>>
     \/ GTop(c).kind = "R" /\ GTop(c).dstack = <<>>

\* mutant: the selection starts whatever is_dir answers
GlobIsDirAnyRoot(c) ==
  /\ AtIsDir(c)
  /\ LET r == IsDir(fs, GTop(c).path) IN
       gc' = [gc EXCEPT ![c] =
                IF r.err # "OK" THEN GRaise(gc[c], r.err, 1)
                ELSE GNext(gc[c],
                           Append(ReplTop(gc[c].stack, [GTop(c) EXCEPT !.pc = "done"]),
                                  NewFrame(gc[c].sel, 1, GTop(c).path)), 1)]
  /\ UNCHANGED <<fs, rc, fh, win, mk, rw>>

\* select_from: if not await is_dir(parent_path): return
GlobIsDir(c) ==
  /\ AtIsDir(c)
  /\ LET r == IsDir(fs, GTop(c).path) IN
       gc' = [gc EXCEPT ![c] =
                IF r.err # "OK" THEN GRaise(gc[c], r.err, 1)
                ELSE IF ~r.val
                THEN GNext(gc[c], ReplTop(gc[c].stack, [GTop(c) EXCEPT !.pc = "done"]), 1)
                ELSE GNext(gc[c],
                           Append(ReplTop(gc[c].stack, [GTop(c) EXCEPT !.pc = "done"]),
                                  NewFrame(gc[c].sel, 1, GTop(c).path)), 1)]
  /\ UNCHANGED <<fs, rc, fh, win, mk, rw>>

\* _TerminatingSelector._select_from: yield parent_path
GlobTermYield(c) ==
  /\ AtTerm(c)
  /\ LET b == Bubble(ReplTop(gc[c].stack, [GTop(c) EXCEPT !.pc = "done"]),
                     Len(gc[c].stack) - 1, GTop(c).path)
     IN gc' = [gc EXCEPT ![c] =
                 [GNext(gc[c], b.stack, 0) EXCEPT
                    !.out = IF b.delivered THEN Append(@, GTop(c).path) ELSE @]]
  /\ UNCHANGED <<fs, rc, fh, win, mk, rw>>

\* mutant: the child is tested with exists() whatever dironly says
GlobPreciseExists(c) ==
  /\ AtPrecise(c)
  /\ LET path == JoinName(GTop(c).path, GSel(c).pat)
         r == PathExists(fs, path)
         over == ReplTop(gc[c].stack, [GTop(c) EXCEPT !.pc = "done"])
     IN gc' = [gc EXCEPT ![c] =
                 IF r.err = "EACCES" THEN GNext(gc[c], over, 1)
                 ELSE IF r.err # "OK" THEN GRaise(gc[c], r.err, 1)
                 ELSE IF r.val
                 THEN GNext(gc[c], Append(over, NewFrame(gc[c].sel, GTop(c).idx + 1, path)), 1)
                 ELSE GNext(gc[c], over, 1)]
  /\ UNCHANGED <<fs, rc, fh, win, mk, rw>>

\* _PreciseSelector._select_from
GlobPrecise(c) ==
  /\ AtPrecise(c)
  /\ LET path == JoinName(GTop(c).path, GSel(c).pat)
         r == IF GSel(c).dironly THEN IsDir(fs, path) ELSE PathExists(fs, path)
         over == ReplTop(gc[c].stack, [GTop(c) EXCEPT !.pc = "done"])
     IN gc' = [gc EXCEPT ![c] =
                 IF r.err = "EACCES" THEN GNext(gc[c], over, 1)
                 ELSE IF r.err # "OK" THEN GRaise(gc[c], r.err, 1)
                 ELSE IF r.val
                 THEN GNext(gc[c], Append(over, NewFrame(gc[c].sel, GTop(c).idx + 1, path)), 1)
                 ELSE GNext(gc[c], over, 1)]
  /\ UNCHANGED <<fs, rc, fh, win, mk, rw>>

\* _WildcardSelector._select_from: async for entry in scandir(parent_path)
GlobScan(c) ==
  /\ AtScan(c)
  /\ LET r == Scandir(fs, GTop(c).path) IN
       gc' = [gc EXCEPT ![c] =
                IF r.err = "EACCES"
                THEN GNext(gc[c], ReplTop(gc[c].stack, [GTop(c) EXCEPT !.pc = "done"]), 1)
                ELSE IF r.err # "OK" THEN GRaise(gc[c], r.err, 1)
                ELSE [GNext(gc[c],
                            ReplTop(gc[c].stack,
                                    [GTop(c) EXCEPT !.pc = "loop", !.entries = r.names]),
                            1)
                        EXCEPT !.handles = @ + r.open]]
  /\ UNCHANGED <<fs, rc, fh, win, mk, rw>>

\* mutant: every entry is handed to the successor, matching or not
GlobEntryAnyName(c) ==
  /\ AtEntry(c)
  /\ LET name == Head(GTop(c).entries)
         d == IF GSel(c).dironly THEN EntryIsDir(fs, GTop(c).path, name)
              ELSE Answer("OK", TRUE)
         calls == IF GSel(c).dironly THEN 1 ELSE 0
         skip == ReplTop(gc[c].stack, [GTop(c) EXCEPT !.entries = Tail(@)])
     IN gc' = [gc EXCEPT ![c] =
                 IF d.err \notin IgnoredErrors \cup {"OK"}
                 THEN IF d.err = "EACCES"
                      THEN GNext(gc[c],
                                 ReplTop(gc[c].stack, [GTop(c) EXCEPT !.pc = "done"]),
                                 calls)
                      ELSE GRaise(gc[c], d.err, calls)
                 ELSE IF d.err = "OK" /\ d.val
                 THEN GNext(gc[c],
                            Append(skip, NewFrame(gc[c].sel, GTop(c).idx + 1,
                                                  JoinName(GTop(c).path, <<name>>))),
                            calls)
                 ELSE GNext(gc[c], skip, calls)]
  /\ UNCHANGED <<fs, rc, fh, win, mk, rw>>

\* _WildcardSelector._select_from: the body of the loop for one entry
GlobEntry(c) ==
  /\ AtEntry(c)
  /\ LET name == Head(GTop(c).entries)
         d == IF GSel(c).dironly THEN EntryIsDir(fs, GTop(c).path, name)
              ELSE Answer("OK", TRUE)
         calls == IF GSel(c).dironly THEN 1 ELSE 0
         skip == ReplTop(gc[c].stack, [GTop(c) EXCEPT !.entries = Tail(@)])
     IN gc' = [gc EXCEPT ![c] =
                 IF d.err \notin IgnoredErrors \cup {"OK"}
                 THEN IF d.err = "EACCES"
                      THEN GNext(gc[c],
                                 ReplTop(gc[c].stack, [GTop(c) EXCEPT !.pc = "done"]),
                                 calls)
                      ELSE GRaise(gc[c], d.err, calls)
                 ELSE IF d.err = "OK" /\ d.val /\ FnMatch(GSel(c).pat, <<name>>)
                 THEN GNext(gc[c],
                            Append(skip, NewFrame(gc[c].sel, GTop(c).idx + 1,
                                                  JoinName(GTop(c).path, <<name>>))),
                            calls)
                 ELSE GNext(gc[c], skip, calls)]
  /\ UNCHANGED <<fs, rc, fh, win, mk, rw>>

SetDStack(c, ds) == ReplTop(gc[c].stack, [GTop(c) EXCEPT !.dstack = ds])

\* mutant: the directory itself is not handed on, only the ones below it
GlobDirYieldSkipped(c) ==
  /\ AtDirYield(c)
  /\ gc' = [gc EXCEPT ![c] =
              GNext(gc[c],
                    SetDStack(c, ReplTop(GTop(c).dstack,
                                         [DTop(c) EXCEPT !.pc = "scan"])), 0)]
  /\ UNCHANGED <<fs, rc, fh, win, mk, rw>>

\* _iterate_directories: yield parent_path; the recursive selector hands the
\* starting point to its successor
GlobDirYield(c) ==
  /\ AtDirYield(c)
  /\ gc' = [gc EXCEPT ![c] =
              GNext(gc[c],
                    Append(SetDStack(c, ReplTop(GTop(c).dstack,
                                                [DTop(c) EXCEPT !.pc = "scan"])),
                           NewFrame(gc[c].sel, GTop(c).idx + 1, DTop(c).path)), 0)]
  /\ UNCHANGED <<fs, rc, fh, win, mk, rw>>

\* mutant: the PermissionError of the listing is not caught
GlobDirScanUncaught(c) ==
  /\ AtDirScan(c)
  /\ LET r == Scandir(fs, DTop(c).path) IN
       gc' = [gc EXCEPT ![c] =
                IF r.err # "OK" THEN GRaise(gc[c], r.err, 1)
                ELSE GNext(gc[c],
                           SetDStack(c, ReplTop(GTop(c).dstack,
                                                [DTop(c) EXCEPT !.pc = "loop",
                                                                !.entries = r.names])), 1)]
  /\ UNCHANGED <<fs, rc, fh, win, mk, rw>>

\* _iterate_directories: async for entry in scandir(parent_path)
GlobDirScan(c) ==
  /\ AtDirScan(c)
  /\ LET r == Scandir(fs, DTop(c).path) IN
       gc' = [gc EXCEPT ![c] =
                IF r.err = "EACCES"
                THEN GNext(gc[c], SetDStack(c, Pop(GTop(c).dstack)), 1)
                ELSE IF r.err # "OK" THEN GRaise(gc[c], r.err, 1)
                ELSE [GNext(gc[c],
                            SetDStack(c, ReplTop(GTop(c).dstack,
                                                 [DTop(c) EXCEPT !.pc = "loop",
                                                                 !.entries = r.names])),
                            1)
                        EXCEPT !.handles = @ + r.open]]
  /\ UNCHANGED <<fs, rc, fh, win, mk, rw>>

\* mutant: a symlink to a directory is descended into
GlobDirEntryFollows(c) ==
  /\ AtDirEntry(c)
  /\ LET name == Head(DTop(c).entries)
         d == EntryIsDir(fs, DTop(c).path, name)
         rest == ReplTop(GTop(c).dstack, [DTop(c) EXCEPT !.entries = Tail(@)])
     IN gc' = [gc EXCEPT ![c] =
                 IF d.err \notin IgnoredErrors \cup {"OK"}
                 THEN IF d.err = "EACCES"
                      THEN GNext(gc[c], SetDStack(c, Pop(GTop(c).dstack)), 1)
                      ELSE GRaise(gc[c], d.err, 1)
                 ELSE IF d.err = "OK" /\ d.val
                 THEN GNext(gc[c],
                            SetDStack(c, Append(rest,
                                                DFrame(JoinName(DTop(c).path, <<name>>)))),
                            2)
                 ELSE GNext(gc[c], SetDStack(c, rest), 1)]
  /\ UNCHANGED <<fs, rc, fh, win, mk, rw>>

\* _iterate_directories: the body of the loop for one entry
GlobDirEntry(c) ==
  /\ AtDirEntry(c)
  /\ LET name == Head(DTop(c).entries)
         d == EntryIsDir(fs, DTop(c).path, name)
         rest == ReplTop(GTop(c).dstack, [DTop(c) EXCEPT !.entries = Tail(@)])
     IN gc' = [gc EXCEPT ![c] =
                 IF d.err \notin IgnoredErrors \cup {"OK"}
                 THEN IF d.err = "EACCES"
                      THEN GNext(gc[c], SetDStack(c, Pop(GTop(c).dstack)), 1)
                      ELSE GRaise(gc[c], d.err, 1)
                 ELSE IF d.err = "OK" /\ d.val
                 THEN IF EntryIsSymlink(fs, DTop(c).path, name)
                      THEN GNext(gc[c], SetDStack(c, rest), 2)
                      ELSE GNext(gc[c],
                                 SetDStack(c, Append(rest,
                                                     DFrame(JoinName(DTop(c).path,
                                                                     <<name>>)))),
                                 2)
                 ELSE GNext(gc[c], SetDStack(c, rest), 1)]
  /\ UNCHANGED <<fs, rc, fh, win, mk, rw>>

\* _iterate_directories: the listing is exhausted, the generator returns
GlobDirEnd(c) ==
  /\ AtDirEnd(c)
  /\ gc' = [gc EXCEPT ![c] = GNext(gc[c], SetDStack(c, Pop(GTop(c).dstack)), 0)]
  /\ UNCHANGED <<fs, rc, fh, win, mk, rw>>

\* a generator is exhausted: the one that iterates it goes on; when
\* select_from is exhausted the caller's loop ends
GlobReturn(c) ==
  /\ AtReturn(c)
  /\ gc' = [gc EXCEPT ![c] =
              [GNext(gc[c], Pop(gc[c].stack), 0) EXCEPT
                 !.st = IF Len(gc[c].stack) = 1 THEN "done" ELSE @]]
  /\ UNCHANGED <<fs, rc, fh, win, mk, rw>>

GlobStep(c) ==
  \/ GlobIsDir(c)
  \/ GlobTermYield(c)
  \/ GlobPrecise(c)
  \/ GlobScan(c)
  \/ GlobEntry(c)
  \/ GlobDirYield(c)
  \/ GlobDirScan(c)
  \/ GlobDirEntry(c)
  \/ GlobDirEnd(c)
  \/ GlobReturn(c)

----------------------------------------------------------------------------
(* IterableAIOFile.  A file is a sequence of bytes and a text a sequence   *)
(* of characters: "x" and "y" are encoded in one byte each, "W" in the two *)
(* bytes "W1" "W2".  AIOFile reads and writes bytes at a byte offset and,  *)
(* on a handle opened in text mode, decodes what it read and encodes what  *)
(* it writes.                                                              *)

\* the number of characters of the file's text
MaxFileLen == 3
\* the largest size handed to read()
MaxReadSize == 2
\* the number of read and write calls made on one handle
MaxOps == 2

Chars == {"x", "y", "W"}
Texts == UNION {[1..n -> Chars] : n \in 0..MaxFileLen}

RECURSIVE Encode(_)
\* str.encode(encoding)
Encode(text) ==
  IF text = <<>> THEN <<>>
  ELSE (IF Head(text) = "W" THEN <<"W1", "W2">> ELSE <<Head(text)>>)
         \o Encode(Tail(text))

Decoded(e, data) == [err |-> e, data |-> data]

RECURSIVE Decode(_)
\* bytes.decode(encoding): a byte that does not start or complete a
\* character is an error
Decode(bytes) ==
  IF bytes = <<>> THEN Decoded("OK", <<>>)
  ELSE IF Head(bytes) \in {"x", "y"}
       THEN LET r == Decode(Tail(bytes)) IN
              IF r.err # "OK" THEN r ELSE Decoded("OK", <<Head(bytes)>> \o r.data)
  ELSE IF Head(bytes) = "W1" /\ Len(bytes) >= 2 /\ bytes[2] = "W2"
       THEN LET r == Decode(SubSeq(bytes, 3, Len(bytes))) IN
              IF r.err # "OK" THEN r ELSE Decoded("OK", <<"W">> \o r.data)
  ELSE Decoded("UnicodeDecodeError", <<>>)

RECURSIVE DecodeReplace(_)
\* bytes.decode(encoding, 'replace'): such a byte becomes the character "?"
DecodeReplace(bytes) ==
  IF bytes = <<>> THEN <<>>
  ELSE IF Head(bytes) \in {"x", "y"}
       THEN <<Head(bytes)>> \o DecodeReplace(Tail(bytes))
  ELSE IF Head(bytes) = "W1" /\ Len(bytes) >= 2 /\ bytes[2] = "W2"
       THEN <<"W">> \o DecodeReplace(SubSeq(bytes, 3, Len(bytes)))
  ELSE <<"?">> \o DecodeReplace(Tail(bytes))

\* the bytes of file from offset on, size of them at most
ReadBytes(file, size, offset) ==
  SubSeq(file, offset + 1,
         IF offset + size < Len(file) THEN offset + size ELSE Len(file))

\* bytes written into file at offset, which is not beyond its end
WriteBytes(file, bytes, offset) ==
  SubSeq(file, 1, offset) \o bytes
    \o SubSeq(file, offset + Len(bytes) + 1, Len(file))

\* AIOFile.read(size, offset): size -1 is the size of the file; the bytes
\* in binary mode, else the text decoded from them, whose error handling
\* is the library's: it raises or it replaces
AIORead(h, size, offset) ==
  LET raw == ReadBytes(h.file, IF size = -1 THEN Len(h.file) ELSE size, offset)
  IN IF h.binary THEN {Decoded("OK", raw)}
     ELSE {Decode(raw), Decoded("OK", DecodeReplace(raw))}

\* open modes: 'b' is binary, '+' allows writing
Modes == { <<"r">>, <<"r", "b">>, <<"r", "+">>, <<"r", "b", "+">> }
InMode(ch, mode) == \E i \in DOMAIN mode : mode[i] = ch

\* explicit offsets handed to read() and write(), and the texts written
Offsets == {0, 1}
WriteTexts == { <<"x">>, <<"W">> }

\* no handle is open on the file
NoHandle ==
  [st |-> "none", binary |-> FALSE, writable |-> FALSE, file |-> <<>>,
   offset |-> 0, log |-> <<>>]

\* one call of read or write, as the caller saw it
Logged(op, size, dflt, at, e, data) ==
  [op |-> op, size |-> size, dflt |-> dflt, at |-> at, err |-> e, data |-> data]

\* _set_offset(offset, data): self._offset = offset + len(data)
SetOffset(offset, data) == offset + Len(data)

\* AsyncPath.open(mode) and __aenter__: self._offset = 0
HandleOpen ==
  /\ fh.st = "none"
  /\ \E mode \in Modes :
       fh' = [fh EXCEPT !.st = "open", !.binary = InMode("b", mode),
                        !.writable = InMode("+", mode), !.offset = 0]
  /\ UNCHANGED <<fs, rc, gc, win, mk, rw>>

\* await file.read(size, offset): an error of super().read leaves _offset
HandleRead ==
  /\ fh.st = "open"
  /\ Len(fh.log) < MaxOps
  /\ \E size \in {-1} \cup 1..MaxReadSize, dflt \in BOOLEAN, given \in Offsets :
       LET offset == IF dflt THEN fh.offset ELSE given IN
         \E r \in AIORead(fh, size, offset) :
            fh' = IF r.err # "OK"
                  THEN [fh EXCEPT !.log = Append(@, Logged("read", size, dflt,
                                                           offset, r.err, <<>>))]
                  ELSE [fh EXCEPT !.offset = SetOffset(offset, r.data),
                                  !.log = Append(@, Logged("read", size, dflt,
                                                           offset, "OK", r.data))]
  /\ UNCHANGED <<fs, rc, gc, win, mk, rw>>

\* await file.write(data, offset): data is bytes in binary mode, else text
HandleWrite ==
  /\ fh.st = "open"
  /\ fh.writable
  /\ Len(fh.log) < MaxOps
  /\ \E text \in WriteTexts, dflt \in BOOLEAN, given \in Offsets :
       LET offset == IF dflt THEN fh.offset ELSE given
           data == IF fh.binary THEN Encode(text) ELSE text
       IN /\ offset <= Len(fh.file)
          /\ fh' = [fh EXCEPT !.file = WriteBytes(@, Encode(text), offset),
                              !.offset = SetOffset(offset, data),
                              !.log = Append(@, Logged("write", Len(data), dflt,
                                                       offset, "OK", data))]
  /\ UNCHANGED <<fs, rc, gc, win, mk, rw>>

----------------------------------------------------------------------------
(* _AsyncWindowsFlavour.resolve.  A Windows path string is a sequence of   *)
(* tokens: a drive, the separator, "." and the names of Names.  The volume *)
(* C: holds a tree of directories and links; a link leads to the directory  *)
(* WinTarget of the volume; there is no volume D:.                          *)

bs == "\\"
ext == "\\\\?\\"
WinDrives == {"C:", "D:"}

\* the number of components of a path handed to the Windows resolve()
MaxWinLen == 2

WinNodes == {<<n>> : n \in Names} \cup {<<n, m>> : n \in Names, m \in Names}
WinTarget == <<"b">>

WinVolumes ==
  {f \in [WinNodes -> {"none", "dir", "link"}] :
     \A p \in WinNodes : (Len(p) > 1 /\ f[p] # "none") => f[Parent(p)] = "dir"}

WinKind(f, p) ==
  IF p = Root THEN "dir" ELSE IF p \in WinNodes THEN f[p] ELSE "none"

\* the directories the process can have as its current directory
WinDirs(f) ==
  {Root} \cup {p \in WinNodes : \A i \in 1..Len(p) : f[SubSeq(p, 1, i)] = "dir"}

RECURSIVE JoinBs(_)
JoinBs(comps) ==
  IF comps = <<>> THEN <<>>
  ELSE IF Len(comps) = 1 THEN <<comps[1]>>
  ELSE <<comps[1], bs>> \o JoinBs(Tail(comps))

\* the paths resolve() is called on, and str(path)
WinPaths ==
  [drive : {<<>>} \cup {<<d>> : d \in WinDrives},
   root : {<<>>, <<bs>>},
   comps : UNION {[1..n -> Names] : n \in 0..MaxWinLen}]

WinStr(path) ==
  IF path.drive = <<>> /\ path.root = <<>> /\ path.comps = <<>> THEN <<dot>>
  ELSE path.drive \o path.root \o JoinBs(path.comps)

\* ntpath.splitdrive(p)
SplitDrive(p) ==
  IF p # <<>> /\ p[1] \in WinDrives
  THEN [drive |-> <<p[1]>>, path |-> Tail(p)]
  ELSE [drive |-> <<>>, path |-> p]

RECURSIVE RStripBs(_)
\* head.rstrip(seps)
RStripBs(p) ==
  IF p # <<>> /\ p[Len(p)] = bs THEN RStripBs(SubSeq(p, 1, Len(p) - 1)) ELSE p

\* os.path.split(p) of ntpath: the tail is what follows the last separator,
\* the head loses its trailing separators unless it is separators only
NtSplit(p) ==
  LET d == SplitDrive(p)
      seps == {i \in 1..Len(d.path) : d.path[i] = bs}
      i == IF seps = {} THEN 0 ELSE CHOOSE k \in seps : \A j \in seps : j <= k
      head == SubSeq(d.path, 1, i)
      tail == SubSeq(d.path, i + 1, Len(d.path))
  IN [head |-> d.drive \o (IF RStripBs(head) # <<>> THEN RStripBs(head) ELSE head),
      tail |-> tail]

RECURSIVE NtJoin(_, _)
\* os.path.join(path, *paths) of ntpath for paths that hold neither a drive
\* nor a separator: each is appended, after a separator unless the result
\* is empty or ends with a separator or a colon
NtJoin(path, paths) ==
  IF paths = <<>> THEN path
  ELSE LET r == SplitDrive(path).path
           glue == IF r # <<>> /\ r[Len(r)] # bs THEN <<bs>> ELSE <<>>
       IN NtJoin(path \o glue \o Head(paths), Tail(paths))

\* reversed(tail_parts)
Reversed(q) == [i \in 1..Len(q) |-> q[Len(q) + 1 - i]]

RECURSIVE WinWalk(_, _, _, _)
\* the walk of the volume from directory cur over comps; a link is followed
WinWalk(f, cur, comps, fuel) ==
  IF comps = <<>> THEN KRes("OK", cur)
  ELSE IF Head(comps) = dot THEN WinWalk(f, cur, Tail(comps), fuel)
  ELSE LET child == Append(cur, Head(comps)) IN
    IF WinKind(f, child) = "none" THEN KRes("ENOENT", child)
    ELSE IF WinKind(f, child) = "link"
    THEN IF fuel = 0 THEN KRes("ELOOP", child)
         ELSE LET r == WinWalk(f, Root, WinTarget, fuel - 1) IN
                IF r.err # "OK" THEN r
                ELSE WinWalk(f, r.node, Tail(comps), fuel)
    ELSE WinWalk(f, child, Tail(comps), fuel)

\* the canonical path of a directory of the volume, as the system call
\* returns it: in the extended form
WinFinal(node) == <<ext, "C:", bs>> \o JoinBs(node)

\* nt._getfinalpathname(s): the empty string and everything on a missing
\* volume is not found; a path without a root starts at the current
\* directory
GetFinalPathName(f, cwd, s) ==
  LET d == SplitDrive(s)
      rooted == d.path # <<>> /\ d.path[1] = bs
      comps == SelectSeq(d.path, LAMBDA t : t # bs)
      r == WinWalk(f, IF rooted THEN Root ELSE cwd, comps, Cardinality(WinNodes))
  IN IF s = <<>> \/ d.drive = <<"D:">> THEN [err |-> "ENOENT", final |-> <<>>]
     ELSE IF r.err # "OK" THEN [err |-> r.err, final |-> <<>>]
     ELSE [err |-> "OK", final |-> WinFinal(r.node)]

\* _ext_to_normal(s): the extended-path prefix is dropped
ExtToNormal(s) == IF s # <<>> /\ s[1] = ext THEN Tail(s) ELSE s

WinIdle ==
  [st |-> "idle", f |-> [p \in WinNodes |-> "none"], cwd |-> Root,
   path |-> [drive |-> <<>>, root |-> <<>>, comps |-> <<>>], strict |-> FALSE,
   s |-> <<>>, tail_parts |-> <<>>, returns |-> "", result |-> <<>>,
   err |-> "", lookups |-> 0]

WinDone(w, returns, result) ==
  [w EXCEPT !.st = "done", !.returns = returns, !.result = result]

\* resolve(path, strict) up to the test of _getfinalpathname, which is None
\* where the platform has no such call
WinResolveStart ==
  /\ win.st = "idle"
  /\ \E f \in WinVolumes, path \in WinPaths, strict \in BOOLEAN,
        available \in BOOLEAN :
       \E cwd \in WinDirs(f) :
         LET w == [WinIdle EXCEPT !.f = f, !.cwd = cwd, !.path = path,
                                  !.strict = strict, !.s = WinStr(path)]
         IN win' = IF w.s = <<>> THEN WinDone(w, "str", <<"C:", bs>> \o JoinBs(cwd))
                   ELSE IF ~available THEN WinDone(w, "None", <<>>)
                   ELSE [w EXCEPT !.st = "running"]
  /\ UNCHANGED <<fs, rc, gc, fh, mk, rw>>

\* if strict: return self._ext_to_normal(await _getfinalpathname(s))
WinResolveStrict ==
  /\ win.st = "running" /\ win.strict
  /\ LET r == GetFinalPathName(win.f, win.cwd, win.s)
         w == [win EXCEPT !.lookups = @ + 1]
     IN win' = IF r.err = "OK" THEN WinDone(w, "str", ExtToNormal(r.final))
               ELSE [w EXCEPT !.st = "raised", !.err = r.err]
  /\ UNCHANGED <<fs, rc, gc, fh, mk, rw>>

\* mutant: the loop does not compare the shortened prefix with the previous
\* one
WinResolveTryOn ==
  /\ win.st = "running" /\ ~win.strict
  /\ LET r == GetFinalPathName(win.f, win.cwd, win.s)
         w == [win EXCEPT !.lookups = @ + 1]
         sp == NtSplit(win.s)
     IN win' =
          IF r.err = "OK"
          THEN WinDone(w, "str", NtJoin(ExtToNormal(r.final), Reversed(win.tail_parts)))
          ELSE IF r.err # "ENOENT" THEN [w EXCEPT !.st = "raised", !.err = r.err]
          ELSE [w EXCEPT !.s = sp.head, !.tail_parts = Append(@, sp.tail)]
  /\ UNCHANGED <<fs, rc, gc, fh, mk, rw>>

\* one turn of the while loop of the non-strict branch
WinResolveTry ==
  /\ win.st = "running" /\ ~win.strict
  /\ LET r == GetFinalPathName(win.f, win.cwd, win.s)
         w == [win EXCEPT !.lookups = @ + 1]
         sp == NtSplit(win.s)
     IN win' =
          IF r.err = "OK"
          THEN WinDone(w, "str", NtJoin(ExtToNormal(r.final), Reversed(win.tail_parts)))
          ELSE IF r.err # "ENOENT" THEN [w EXCEPT !.st = "raised", !.err = r.err]
          ELSE IF sp.head = win.s
               THEN WinDone([w EXCEPT !.tail_parts = Append(@, sp.tail)],
                            "path", WinStr(win.path))
               ELSE [w EXCEPT !.s = sp.head, !.tail_parts = Append(@, sp.tail)]
  /\ UNCHANGED <<fs, rc, gc, fh, mk, rw>>


----------------------------------------------------------------------------
(* AsyncPath.mkdir.  The directory tree is a chain: the node of depth n is *)
(* the path of n components.  Two calls run as coroutines; each action is  *)
(* one call handed to a thread, os.mkdir or stat, and what the coroutine   *)
(* does until it awaits the next one.  stack holds the frames of the       *)
(* nested mkdir coroutines of a call, the running one last.                *)

\* the depth of the deepest path mkdir() is called on
MaxDepth == 3

MkNodes == {[i \in 1..n |-> "a"] : n \in 1..MaxDepth}
MkCalls == {"A", "B"}

MkTrees ==
  {t \in [MkNodes -> {"none", "dir", "file"}] :
     \A p \in MkNodes : (Len(p) > 1 /\ t[p] # "none") => t[Parent(p)] = "dir"}

MkKind(t, p) == IF p = Root THEN "dir" ELSE t[p]

\* os.mkdir(path): the errno, or OK
OsMkdir(t, p) ==
  LET stops == {i \in 1..(Len(p) - 1) : MkKind(t, SubSeq(p, 1, i)) # "dir"}
      first == CHOOSE i \in stops : \A j \in stops : i <= j
  IN IF stops # {}
     THEN IF MkKind(t, SubSeq(p, 1, first)) = "none" THEN "ENOENT" ELSE "ENOTDIR"
     ELSE IF MkKind(t, p) # "none" THEN "EEXIST"
     ELSE "OK"

\* await self.is_dir()
MkIsDir(t, p) == OsMkdir(t, p) = "EEXIST" /\ MkKind(t, p) = "dir"

MkFrame(p, parents, exist_ok) ==
  [path |-> p, parents |-> parents, exist_ok |-> exist_ok, pc |-> "mkdir",
   err |-> ""]

MkNoCall ==
  [st |-> "idle", path |-> Root, parents |-> FALSE, exist_ok |-> FALSE,
   stack |-> <<>>, err |-> "", created |-> {}]

MkIdle ==
  [tree |-> [p \in MkNodes |-> "none"], tree0 |-> [p \in MkNodes |-> "none"],
   calls |-> [c \in MkCalls |-> MkNoCall]]

MkTop(c) == mk.calls[c].stack[Len(mk.calls[c].stack)]
MkRunning(c) == mk.calls[c].st = "running"

RECURSIVE MkReturn(_)
\* the running coroutine returns: a caller that awaited
\* self.parent.mkdir(...) goes on to self.mkdir(mode, parents=False,
\* exist_ok=exist_ok), a caller that awaited that returns too
MkReturn(stack) ==
  LET rest == Pop(stack) IN
    IF rest = <<>> THEN <<>>
    ELSE LET caller == rest[Len(rest)] IN
      IF caller.pc = "parent"
      THEN Append(ReplTop(rest, [caller EXCEPT !.pc = "again"]),
                  MkFrame(caller.path, FALSE, caller.exist_ok))
      ELSE MkReturn(rest)

\* the call goes on with this stack, or has returned when it is empty
MkGoOn(call, stack) ==
  [call EXCEPT !.stack = stack, !.st = IF stack = <<>> THEN "done" ELSE "running"]

\* an exception leaves every frame: the handlers of the callers are not
\* around the calls they make
MkRaise(call, e) == [call EXCEPT !.st = "raised", !.stack = <<>>, !.err = e]

\* mkdir(mode, parents, exist_ok) is called
MkdirStart(c) ==
  /\ mk.calls[c].st = "idle"
  /\ \E p \in MkNodes \cup {Root}, parents \in BOOLEAN, exist_ok \in BOOLEAN :
       mk' = [mk EXCEPT !.calls[c] =
                [MkNoCall EXCEPT !.st = "running", !.path = p,
                                 !.parents = parents, !.exist_ok = exist_ok,
                                 !.stack = <<MkFrame(p, parents, exist_ok)>>]]
  /\ UNCHANGED <<fs, rc, gc, fh, win, rw>>

\* mutant: the parent is made with exist_ok left at its default
MkdirTryParentStrict(c) ==
  /\ MkRunning(c) /\ MkTop(c).pc = "mkdir"
  /\ LET fr == MkTop(c)
         call == mk.calls[c]
         e == OsMkdir(mk.tree, fr.path)
     IN mk' =
          IF e = "OK"
          THEN [mk EXCEPT !.tree[fr.path] = "dir",
                          !.calls[c] = MkGoOn([call EXCEPT !.created = @ \cup {fr.path}],
                                              MkReturn(call.stack))]
          ELSE IF e = "ENOENT"
          THEN IF ~fr.parents \/ Parent(fr.path) = fr.path
               THEN [mk EXCEPT !.calls[c] = MkRaise(call, e)]
               ELSE [mk EXCEPT !.calls[c].stack =
                       Append(ReplTop(call.stack, [fr EXCEPT !.pc = "parent"]),
                              MkFrame(Parent(fr.path), TRUE, FALSE))]
          ELSE IF ~fr.exist_ok
               THEN [mk EXCEPT !.calls[c] = MkRaise(call, e)]
               ELSE [mk EXCEPT !.calls[c].stack =
                       ReplTop(call.stack, [fr EXCEPT !.pc = "is_dir", !.err = e])]
  /\ UNCHANGED <<fs, rc, gc, fh, win, rw>>

\* await self._accessor.mkdir(self, mode) and the handlers up to the next
\* await
MkdirTry(c) ==
  /\ MkRunning(c) /\ MkTop(c).pc = "mkdir"
  /\ LET fr == MkTop(c)
         call == mk.calls[c]
         e == OsMkdir(mk.tree, fr.path)
     IN mk' =
          IF e = "OK"
          THEN [mk EXCEPT !.tree[fr.path] = "dir",
                          !.calls[c] = MkGoOn([call EXCEPT !.created = @ \cup {fr.path}],
                                              MkReturn(call.stack))]
          ELSE IF e = "ENOENT"
          THEN IF ~fr.parents \/ Parent(fr.path) = fr.path
               THEN [mk EXCEPT !.calls[c] = MkRaise(call, e)]
               ELSE [mk EXCEPT !.calls[c].stack =
                       Append(ReplTop(call.stack, [fr EXCEPT !.pc = "parent"]),
                              MkFrame(Parent(fr.path), TRUE, TRUE))]
          ELSE IF ~fr.exist_ok
               THEN [mk EXCEPT !.calls[c] = MkRaise(call, e)]
               ELSE [mk EXCEPT !.calls[c].stack =
                       ReplTop(call.stack, [fr EXCEPT !.pc = "is_dir", !.err = e])]
  /\ UNCHANGED <<fs, rc, gc, fh, win, rw>>

\* except OSError: if not exist_ok or not await self.is_dir(): raise
MkdirIsDir(c) ==
  /\ MkRunning(c) /\ MkTop(c).pc = "is_dir"
  /\ LET call == mk.calls[c] IN
       mk' = [mk EXCEPT !.calls[c] =
                IF MkIsDir(mk.tree, MkTop(c).path)
                THEN MkGoOn(call, MkReturn(call.stack))
                ELSE MkRaise(call, MkTop(c).err)]
  /\ UNCHANGED <<fs, rc, gc, fh, win, rw>>

----------------------------------------------------------------------------
(* AsyncPath.read_text, read_bytes, write_text and write_bytes on one path. *)
(* Each call opens the file, reads or writes it and closes it; the calls    *)
(* are made one after the other.  The text has the line separator as one    *)
(* more character, encoded in one byte.                                     *)

nl == "\n"
RwChars == {"x", "W", nl}
RwBytes == {"x", "W1", "W2", nl}
RwTexts == UNION {[1..n -> RwChars] : n \in 0..MaxFileLen}
RwBlobs == UNION {[1..n -> RwBytes] : n \in 0..MaxFileLen}

RECURSIVE DecodeIgnore(_)
\* bytes.decode(encoding, errors='ignore'): a byte that does not start or
\* complete a character is dropped
DecodeIgnore(bytes) ==
  IF bytes = <<>> THEN <<>>
  ELSE IF Head(bytes) \in {"x", "y", nl}
       THEN <<Head(bytes)>> \o DecodeIgnore(Tail(bytes))
  ELSE IF Head(bytes) = "W1" /\ Len(bytes) >= 2 /\ bytes[2] = "W2"
       THEN <<"W">> \o DecodeIgnore(SubSeq(bytes, 3, Len(bytes)))
  ELSE DecodeIgnore(Tail(bytes))

RECURSIVE ReadLines(_)
\* the lines LineReader.readline() returns until it returns nothing: each
\* ends with the separator, but for the last one of a file that does not
ReadLines(bytes) ==
  IF bytes = <<>> THEN <<>>
  ELSE LET ends == {i \in 1..Len(bytes) : bytes[i] = nl}
           e == IF ends = {} THEN Len(bytes)
                ELSE CHOOSE i \in ends : \A j \in ends : i <= j
       IN <<SubSeq(bytes, 1, e)>> \o ReadLines(SubSeq(bytes, e + 1, Len(bytes)))

RECURSIVE ReadFullFile(_)
\* read_full_file: the decoded lines written to a StringIO one after the
\* other
ReadFullFile(lines) ==
  IF lines = <<>> THEN <<>>
  ELSE DecodeIgnore(Head(lines)) \o ReadFullFile(Tail(lines))

\* what the file holds once it is opened in this mode: 'w' truncates it
Opened(file, mode) == IF InMode("w", mode) THEN <<>> ELSE file

RwCall(op, data) == [op |-> op, data |-> data]

\* file is what the path holds, wrote the last write call that returned,
\* held the number of bytes the path held when that call was made, got the
\* last read call made since and what it returned
RwIdle ==
  [file |-> <<>>, held |-> 0, wrote |-> RwCall("", <<>>),
   got |-> RwCall("", <<>>)]

\* mutant: the file is opened for update, which does not truncate it
WriteTextInPlace ==
  /\ \E data \in RwTexts :
       rw' = [held |-> Len(rw.file),
              file |-> WriteBytes(Opened(rw.file, <<"r", "+">>), Encode(data), 0),
              wrote |-> RwCall("write_text", data),
              got |-> RwCall("", <<>>)]
  /\ UNCHANGED <<fs, rc, gc, fh, win, mk>>

\* write_text(data): open(mode='w') and f.write(data), which writes the
\* encoded text at the offset of the new handle, 0
WriteText ==
  /\ \E data \in RwTexts :
       rw' = [held |-> Len(rw.file),
              file |-> WriteBytes(Opened(rw.file, <<"w">>), Encode(data), 0),
              wrote |-> RwCall("write_text", data),
              got |-> RwCall("", <<>>)]
  /\ UNCHANGED <<fs, rc, gc, fh, win, mk>>

\* write_bytes(data): open(mode='wb') and f.write(data)
WriteBytesCall ==
  /\ \E data \in RwBlobs :
       rw' = [held |-> Len(rw.file),
              file |-> WriteBytes(Opened(rw.file, <<"w", "b">>), data, 0),
              wrote |-> RwCall("write_bytes", data),
              got |-> RwCall("", <<>>)]
  /\ UNCHANGED <<fs, rc, gc, fh, win, mk>>

\* read_text(): open('r') and file.read_text(), which reads the lines of
\* the file through a second, binary handle and decodes each
ReadText ==
  /\ rw' = [rw EXCEPT !.got =
              RwCall("read_text", ReadFullFile(ReadLines(Opened(rw.file, <<"r", "b">>))))]
  /\ UNCHANGED <<fs, rc, gc, fh, win, mk>>

\* read_bytes(): open('rb') and file.read(), all bytes from the offset of
\* the new handle, 0
ReadBytesCall ==
  /\ rw' = [rw EXCEPT !.got =
              RwCall("read_bytes",
                     ReadBytes(Opened(rw.file, <<"r", "b">>), Len(rw.file), 0))]
  /\ UNCHANGED <<fs, rc, gc, fh, win, mk>>

----------------------------------------------------------------------------
Init ==
  /\ fs \in FileSystems
  /\ rc = [c \in CallIds |-> IdleCall]
  /\ gc = [c \in CallIds |-> GIdle]
  /\ fh = NoHandle
  /\ win = WinIdle
  /\ mk = MkIdle
  /\ rw = RwIdle

NextResolve ==
  \/ ResolveStart("A")
  \/ ResolveStep("A")
  \/ ResolveAgain("A")

SpecResolve == Init /\ [][NextResolve]_vars

NextGlob ==
  \/ GlobReject("A")
  \/ GlobStart("A")
  \/ GlobStep("A")

SpecGlob == Init /\ [][NextGlob]_vars

\* the record of a call of glob or rglob that has compiled its pattern
GlobCalled(kind, pattern, root) ==
  IF Compile(kind, pattern).err # "OK"
  THEN [GIdle EXCEPT !.st = "raised", !.kind = kind, !.pattern = pattern,
                     !.root = root, !.err = Compile(kind, pattern).err]
  ELSE [GIdle EXCEPT !.st = "running", !.kind = kind, !.pattern = pattern,
                     !.root = root, !.sel = Compile(kind, pattern).sel,
                     !.stack = <<SFrame(root)>>]

\* after rglob(pattern) of call c has ended, call d is glob("**/" + pattern)
\* on the same path
GlobPrefixed(c, d) ==
  /\ gc[c].st \in {"done", "raised"}
  /\ gc[c].kind = "rglob"
  /\ gc[c].pattern # <<>>
  /\ ~PatternRoot(gc[c].pattern)
  /\ gc[d].st = "idle"
  /\ gc' = [gc EXCEPT ![d] =
              GlobCalled("glob", StarStar \o <<sep>> \o gc[c].pattern, gc[c].root)]
  /\ UNCHANGED <<fs, rc, fh, win, mk, rw>>

NextGlobTwice ==
  \/ GlobReject("A")
  \/ GlobStart("A")
  \/ GlobStep("A")
  \/ GlobPrefixed("A", "B")
  \/ GlobStep("B")

SpecGlobTwice == Init /\ [][NextGlobTwice]_vars

\* two calls in flight together: the paths resolved and the patterns
PairInputs == {raw \in RawInputs : Len(Split(raw)) = 1}
PairPatterns == { <<star>>, StarStar, <<"a">> }

\* the record of a call of resolve(strict) on raw with the working directory cwd
ResolveCalled(raw, strict, cwd) ==
  StartCall(raw, strict,
            IF IsAbsolute(raw) THEN <<>> ELSE NodeStr(cwd), 1, None,
            IF IsAbsolute(raw) THEN PurePathStr(raw)
            ELSE JoinName(NodeStr(cwd), PurePathStr(raw)))

NoCallMade ==
  \A c \in CallIds : rc[c].st = "idle" /\ gc[c].st = "idle"

\* the call R made alone is made again as A, together with a call B, and
\* both are then stepped in any order
ResolvePair ==
  /\ rc["R"].st \in {"done", "raised"}
  /\ rc["A"].st = "idle" /\ rc["B"].st = "idle"
  /\ \E rawA \in PairInputs, rawB \in PairInputs, strictB \in BOOLEAN :
       \E cwdA \in (IF IsAbsolute(rawA) THEN {Root} ELSE RealDirs(fs)),
          cwdB \in (IF IsAbsolute(rawB) THEN {Root} ELSE RealDirs(fs)) :
         /\ ResolveCalled(rawA, rc["R"].strict, cwdA).input = rc["R"].input
         /\ ResolveCalled(rawA, rc["R"].strict, cwdA).origin = rc["R"].origin
         /\ rc' = [rc EXCEPT !["A"] = ResolveCalled(rawA, rc["R"].strict, cwdA),
                             !["B"] = ResolveCalled(rawB, strictB, cwdB)]
  /\ UNCHANGED <<fs, gc, fh, win, mk, rw>>

GlobPair ==
  /\ gc["R"].st \in {"done", "raised"}
  /\ gc["R"].pattern \in PairPatterns
  /\ \A p \in Slots : fs[p].kind # "link"
  /\ gc["R"].err \notin {"ValueError", "NotImplementedError"}
  /\ gc["A"].st = "idle" /\ gc["B"].st = "idle"
  /\ \E kindB \in {"glob", "rglob"}, patternB \in PairPatterns :
       gc' = [gc EXCEPT
                !["A"] = GlobCalled(gc["R"].kind, gc["R"].pattern, gc["R"].root),
                !["B"] = GlobCalled(kindB, patternB, gc["R"].root)]
  /\ UNCHANGED <<fs, rc, fh, win, mk, rw>>

NextConcurrent ==
  \/ NoCallMade /\ ResolveStart("R") /\ rc'["R"].input \in PairInputs
  \/ NoCallMade /\ GlobReject("R")
  \/ NoCallMade /\ GlobStart("R") /\ gc'["R"].pattern \in PairPatterns
  \/ ResolveStep("R")
  \/ GlobStep("R")
  \/ ResolvePair
  \/ GlobPair
  \/ ResolveStep("A")
  \/ ResolveStep("B")
  \/ GlobStep("A")
  \/ GlobStep("B")

SpecConcurrent == Init /\ [][NextConcurrent]_vars

\* The resolver the memo map is compared with: it keeps only the markers of
\* the resolutions in progress, so when a recursion returns the marker is
\* deleted and the symlink is read again the next time it is met
ReferenceReturn(c) ==
  /\ Returns(c)
  /\ LET caller == rc[c].stack[Len(rc[c].stack) - 1] IN
       rc' = [rc EXCEPT ![c] =
                [rc[c] EXCEPT
                   !.stack = Append(SubSeq(@, 1, Len(@) - 2),
                                    [caller EXCEPT !.path = Top(c).path,
                                                   !.newpath = <<>>]),
                   !.seen = [k \in DOMAIN @ \ {caller.newpath} |-> @[k]]]]
  /\ UNCHANGED <<fs, gc, fh, win, mk, rw>>

ReferenceStep(c) ==
  \/ ResolveSkip(c)
  \/ ResolveParent(c)
  \/ ResolveLoop(c)
  \/ ResolveSymlink(c)
  \/ ResolveRaise(c)
  \/ ResolveLiteral(c)
  \/ ReferenceReturn(c)
  \/ ResolveFinish(c)

\* resolve(strict) is called as A, and the same call is handed to the
\* reference resolver as B, which runs once A has ended
ResolveTwin ==
  /\ NoCallMade
  /\ \E raw \in RawInputs, strict \in BOOLEAN :
       \E cwd \in (IF IsAbsolute(raw) THEN {Root} ELSE RealDirs(fs)) :
         rc' = [rc EXCEPT !["A"] = ResolveCalled(raw, strict, cwd),
                          !["B"] = ResolveCalled(raw, strict, cwd)]
  /\ UNCHANGED <<fs, gc, fh, win, mk, rw>>

NextMemo ==
  \/ ResolveTwin
  \/ ResolveStep("A")
  \/ rc["A"].st \in {"done", "raised"} /\ ReferenceStep("B")

SpecMemo == Init /\ [][NextMemo]_vars

\* a file holding an encoded text, no handle open on it yet
NextWindows ==
  \/ WinResolveStart
  \/ WinResolveStrict
  \/ WinResolveTry

\* the POSIX tree plays no part in the Windows resolve
InitWindows ==
  /\ fs \in {f \in FileSystems : \A p \in Slots : f[p].kind = "none"}
  /\ rc = [c \in CallIds |-> IdleCall]
  /\ gc = [c \in CallIds |-> GIdle]
  /\ fh = NoHandle
  /\ win = WinIdle
  /\ mk = MkIdle
  /\ rw = RwIdle

SpecWindows == InitWindows /\ [][NextWindows]_vars

\* the tree mkdir works on holds directories and files
InitMkdir ==
  /\ fs \in {f \in FileSystems : \A p \in Slots : f[p].kind = "none"}
  /\ rc = [c \in CallIds |-> IdleCall]
  /\ gc = [c \in CallIds |-> GIdle]
  /\ fh = NoHandle
  /\ win = WinIdle
  /\ mk \in {[MkIdle EXCEPT !.tree = t, !.tree0 = t] : t \in MkTrees}
  /\ rw = RwIdle

NextMkdir ==
  \/ \E c \in MkCalls : MkdirStart(c)
  \/ \E c \in MkCalls : MkdirTry(c)
  \/ \E c \in MkCalls : MkdirIsDir(c)

SpecMkdir == InitMkdir /\ [][NextMkdir]_vars

\* the path holds any bytes before the first call
InitReadWrite ==
  /\ fs \in {f \in FileSystems : \A p \in Slots : f[p].kind = "none"}
  /\ rc = [c \in CallIds |-> IdleCall]
  /\ gc = [c \in CallIds |-> GIdle]
  /\ fh = NoHandle
  /\ win = WinIdle
  /\ mk = MkIdle
  /\ rw \in {[RwIdle EXCEPT !.file = b] : b \in RwBlobs}

NextReadWrite ==
  \/ WriteText
  \/ WriteBytesCall
  \/ ReadText
  \/ ReadBytesCall

SpecReadWrite == InitReadWrite /\ [][NextReadWrite]_vars

InitHandle ==
  /\ fs \in {f \in FileSystems : \A p \in Slots : f[p].kind = "none"}
  /\ rc = [c \in CallIds |-> IdleCall]
  /\ gc = [c \in CallIds |-> GIdle]
  /\ fh \in {[NoHandle EXCEPT !.file = Encode(t)] : t \in Texts}
  /\ win = WinIdle
  /\ mk = MkIdle
  /\ rw = RwIdle

NextHandle ==
  \/ HandleOpen
  \/ HandleRead
  \/ HandleWrite

SpecHandle == InitHandle /\ [][NextHandle]_vars

----------------------------------------------------------------------------
(* Properties of resolve *)

Ended(c) == rc[c].st \in {"done", "raised"}
Exists(f, s) == Lookup(f, s, TRUE).err = "OK"

\* the candidates whose symlink target a suspended _resolve frame is resolving
InProgress(c) ==
  {rc[c].stack[i].newpath : i \in 1..(Len(rc[c].stack) - 1)}

IsLink(p, t) == fs[p] = Node("link", t)

\* C1: in strict mode, a step that meets a candidate whose own target is
\* still being resolved raises the symlink-loop error naming that candidate,
\* and a call that raised never returns a path.
C1_StrictLoopRaises ==
  [][\A c \in CallIds :
       /\ (/\ Running(c) /\ rc[c].strict
           /\ Top(c).names # <<>> /\ IsName(Head(Top(c).names))
           /\ Candidate(c) \in InProgress(c))
          => (/\ rc'[c].st = "raised"
              /\ rc'[c].err = "RuntimeError"
              /\ rc'[c].errpath = Candidate(c)
              /\ rc'[c].result = None)
       /\ rc[c].st = "raised" => rc'[c] = rc[c]]_vars

\* a -> b and b -> a, /a resolved strictly: the loop error names /a
C1_Witness ==
  /\ IsLink(<<"a">>, <<"b">>) /\ IsLink(<<"b">>, <<"a">>)
  /\ rc["A"].strict /\ rc["A"].input = <<sep, "a">>
  /\ rc["A"].st = "raised" /\ rc["A"].err = "RuntimeError"
  /\ rc["A"].errpath = <<sep, "a">>

MutualLinks(c) ==
  /\ IsLink(<<"a">>, <<"b">>) /\ IsLink(<<"b">>, <<"a">>)
  /\ rc[c].round = 1
  /\ rc[c].input = <<sep, "a">>
  /\ ~rc[c].strict

\* C2 as claimed: with a -> b and b -> a, resolve(a, strict=false) does not raise
C2_NonStrictLoopDoesNotRaise ==
  \A c \in CallIds : MutualLinks(c) => rc[c].st # "raised"

\* C2 amended: with a -> b and b -> a, resolve(a, strict=false) ends by
\* raising the symlink-loop error, as in strict mode, and returns no path.
C2_NonStrictLoopRaises ==
  \A c \in CallIds :
    (MutualLinks(c) /\ Ended(c)) =>
      /\ rc[c].st = "raised" /\ rc[c].err = "RuntimeError"
      /\ rc[c].result = None

C2_Witness == MutualLinks("A") /\ Ended("A") /\ Len(rc["A"].entered) = 2

\* C3: for an existing path p, resolve(p) returns, and resolve(resolve(p))
\* returns the same path.
C3_Idempotent ==
  \A c \in CallIds :
    (rc[c].st # "idle" /\ Exists(fs, rc[c].origin)) =>
      /\ rc[c].st # "raised"
      /\ (rc[c].round = 2 /\ rc[c].st = "done") => rc[c].result = rc[c].first

\* the second call returned, for a path that resolution changed
C3_Witness ==
  /\ rc["A"].round = 2 /\ rc["A"].st = "done"
  /\ Exists(fs, rc["A"].origin)
  /\ rc["A"].origin # rc["A"].result
  /\ \E p \in Slots : fs[p].kind = "link"

Prefixes(comps) == {SubSeq(comps, 1, i) : i \in 1..Len(comps)}

\* s is absolute, has no '.' or '..' component, and neither s nor a prefix
\* of s is a symlink
SymlinkFree(f, s) ==
  LET comps == SelectSeq(Split(s), LAMBDA x : x # <<>>) IN
    /\ StartsWithSep(s)
    /\ \A i \in 1..Len(comps) : IsName(comps[i])
    /\ \A q \in Prefixes(comps) :
         LET r == Lookup(f, <<sep>> \o JoinSep(q), FALSE) IN
           ~(r.err = "OK" /\ NodeKind(f, r.node) = "link")

\* C4: what resolve(p, strict=true) returns is absolute, without '.' and
\* '..', and no prefix of it is a symlink.
C4_SymlinkFree ==
  \A c \in CallIds :
    (rc[c].st = "done" /\ rc[c].strict) =>
      /\ SymlinkFree(fs, rc[c].result)
      /\ SymlinkFree(fs, rc[c].fres)

\* a -> b/a, b/a -> .., and /a/.. resolved: '..' after a symlink whose
\* target holds another symlink
C4_Witness ==
  /\ IsLink(<<"a">>, <<"b", sep, "a">>) /\ IsLink(<<"b", "a">>, <<dotdot>>)
  /\ rc["A"].st = "done" /\ rc["A"].strict /\ rc["A"].round = 1
  /\ rc["A"].input = <<sep, "a", sep, dotdot>>
  /\ rc["A"].entered = << <<sep, "a">>, <<sep, "b", sep, "a">> >>

NoDuplicates(q) == \A i, j \in 1..Len(q) : q[i] = q[j] => i = j

NumLinks == Cardinality({p \in Slots : fs[p].kind = "link"})

\* more than the components of any symlink target
FrameMax ==
  LET n == CHOOSE k \in {Len(Split(t)) : t \in Targets} :
             \A t \in Targets : Len(Split(t)) <= k
  IN n + 1

RECURSIVE PendingNames(_)
PendingNames(stack) ==
  IF stack = <<>> THEN 0
  ELSE Len(Head(stack).names) + 1 + PendingNames(Tail(stack))

\* what a call still has to do: the symlinks it may still enter and the
\* components (and returns) its frames still hold
Measure(r) == (NumLinks - Len(r.entered)) * FrameMax + PendingNames(r.stack)

\* the guards of the steps of a call: one of them holds iff a step is enabled
CanStep(c) ==
  \/ IsSkip(c) \/ IsParent(c) \/ IsCached(c) \/ IsLoop(c)
  \/ ReadsLink(c) \/ ReadRaises(c) \/ ReadKeeps(c)
  \/ Returns(c) \/ Finishes(c)

\* C5: within a call no candidate is entered for target resolution twice,
\* and the call terminates: while it runs a step is enabled, and each step
\* strictly decreases a measure that is never negative.
C5_Terminates ==
  /\ [](\A c \in CallIds :
          /\ NoDuplicates(rc[c].entered)
          /\ rc[c].st = "running" => CanStep(c))
  /\ [][\A c \in CallIds :
          (rc[c].st = "running" /\ rc'[c] # rc[c]) =>
             /\ Measure(rc'[c]) < Measure(rc[c])
             /\ Measure(rc'[c]) >= 0]_vars

\* a call over a cyclic filesystem that ended, strict or not
C5_Witness ==
  /\ IsLink(<<"a">>, <<"a">>)
  /\ Ended("A") /\ ~rc["A"].strict /\ rc["A"].entered = << <<sep, "a">> >>

OnlyDots(s) ==
  \A i \in 1..Len(Split(s)) : Split(s)[i] \in {<<>>, <<dot>>, <<dotdot>>}

\* C6: an absolute path made of '..', '.' and empty components resolves,
\* without error, to the root separator; no call returns the empty string.
C6_DotDotUnderflow ==
  \A c \in CallIds :
    /\ (Ended(c) /\ StartsWithSep(rc[c].input) /\ OnlyDots(rc[c].input))
         => (rc[c].st = "done" /\ rc[c].fres = <<sep>> /\ rc[c].result = <<sep>>)
    /\ rc[c].st = "done" => rc[c].fres # <<>>

C6_Witness ==
  /\ rc["A"].st = "done" /\ rc["A"].round = 1
  /\ rc["A"].input = <<sep, dotdot, sep, dotdot>>
  /\ rc["A"].fres = <<sep>>

\* s is absolute, made of names only, and each prefix of s exists and is no
\* symlink
PlainExisting(f, s) ==
  LET comps == SelectSeq(Split(s), LAMBDA x : x # <<>>) IN
    /\ StartsWithSep(s) /\ comps # <<>>
    /\ \A i \in 1..Len(comps) : IsName(comps[i])
    /\ \A q \in Prefixes(comps) :
         LET r == Lookup(f, <<sep>> \o JoinSep(q), FALSE) IN
           r.err = "OK" /\ NodeKind(f, r.node) # "link"

\* C7: resolve(p, strict=true) of an absolute existing path without
\* symlinks, '.' and '..' returns p.
C7_NoSymlinkIdentity ==
  \A c \in CallIds :
    (Ended(c) /\ rc[c].strict /\ rc[c].round = 1
       /\ PlainExisting(fs, rc[c].input)) =>
      /\ rc[c].st = "done"
      /\ rc[c].fres = rc[c].input
      /\ rc[c].result = rc[c].input

C7_Witness ==
  /\ rc["A"].st = "done" /\ rc["A"].strict /\ rc["A"].round = 1
  /\ rc["A"].input = <<sep, "b", sep, "a">>
  /\ PlainExisting(fs, rc["A"].input)

----------------------------------------------------------------------------
(* Properties of glob and rglob *)

Rejected(c) == gc[c].st = "raised" /\ gc[c].ncalls = 0 /\ gc[c].steps = 0

\* some component of the pattern holds '**' together with other characters
HasFused(pattern) ==
  \E i \in 1..Len(PatternParts(pattern)) :
     SelectorKind(PatternParts(pattern)[i]) = "invalid"

\* C8: a pattern with a component, the first or a later one, that holds '**'
\* fused with other characters makes glob and rglob raise while the
\* selector is made, before one accessor call: ValueError("Invalid
\* pattern") for a relative pattern, and for a rooted one the
\* NotImplementedError of the root check that precedes it.
C8_FusedPatternRejected ==
  \A c \in CallIds :
     (gc[c].st # "idle" /\ HasFused(gc[c].pattern)) =>
        /\ Rejected(c)
        /\ gc[c].err = IF PatternRoot(gc[c].pattern) THEN "NotImplementedError"
                       ELSE "ValueError"

\* rglob("a/**a"): the second component is the fused one
C8_Witness ==
  /\ gc["A"].kind = "rglob"
  /\ gc["A"].pattern = <<"a", sep, star, star, "a">>
  /\ Rejected("A")
  /\ gc["A"].err = "ValueError"

IsPrefix(p, q) == Len(p) <= Len(q) /\ SubSeq(q, 1, Len(p)) = p

\* some directory holds a symlink to itself or to one of its ancestors
AncestorLink(f) ==
  \E s \in Slots :
     /\ f[s].kind = "link"
     /\ Lookup(f, NodeStr(s), TRUE).err = "OK"
     /\ IsPrefix(Lookup(f, NodeStr(s), TRUE).node, Parent(s))

HasRecursive(sel) == \E i \in 1..Len(sel) : sel[i].kind = "R"

NumDirs(f) == 1 + Cardinality({p \in Slots : f[p].kind \in DirKinds})

\* the steps of one generator of a selector on a tree of n directories, and
\* the paths it hands to its successor
FrameCost(kind, n) ==
  CASE kind = "R" -> 1 + n * (3 + Cardinality(Names))
    [] kind = "W" -> 2 + Cardinality(Names)
    [] OTHER -> 2

Fanout(kind, n) ==
  CASE kind = "R" -> n
    [] kind = "W" -> Cardinality(Names)
    [] OTHER -> 1

RECURSIVE ChainCost(_, _)
ChainCost(sel, n) ==
  IF sel = <<>> THEN 2
  ELSE FrameCost(Head(sel).kind, n) + Fanout(Head(sel).kind, n) * ChainCost(Tail(sel), n)

StepBound(f, sel) == 2 + ChainCost(sel, NumDirs(f))

CanGlobStep(c) ==
  \/ AtIsDir(c) \/ AtTerm(c) \/ AtPrecise(c) \/ AtScan(c) \/ AtEntry(c)
  \/ AtDirYield(c) \/ AtDirScan(c) \/ AtDirEntry(c) \/ AtDirEnd(c)
  \/ AtReturn(c)

Range(q) == {q[i] : i \in 1..Len(q)}

\* C10: on a tree where a directory holds a symlink to an ancestor, rglob and
\* a glob with '**' components terminate after finitely many paths: an
\* unfinished call always has a step to take, the steps it has taken never
\* exceed a bound fixed by the tree and the selectors, and it has yielded no
\* more paths than it has taken steps.
C10_RecursiveTerminates ==
  \A c \in CallIds :
     (gc[c].st # "idle" /\ HasRecursive(gc[c].sel) /\ AncestorLink(fs)) =>
        /\ gc[c].steps <= StepBound(fs, gc[c].sel)
        /\ Len(gc[c].out) <= gc[c].steps
        /\ gc[c].st = "running" => CanGlobStep(c)
        /\ gc[c].st \in {"running", "done", "raised"}

\* /b/a is a symlink to '..': rglob("*") from / ends and has yielded /b/a
C10_Witness ==
  /\ fs[<<"b", "a">>] = Node("link", <<dotdot>>)
  /\ AncestorLink(fs)
  /\ gc["A"].kind = "rglob"
  /\ gc["A"].pattern = <<star>>
  /\ gc["A"].root = <<sep>>
  /\ gc["A"].st = "done"
  /\ <<sep, "b", sep, "a">> \in Range(gc["A"].out)
  /\ <<sep, "b", sep, "a", sep, "b">> \notin Range(gc["A"].out)

\* the directory a glob call starts from, as the operating system sees it
GlobRootNode(c) == Lookup(fs, gc[c].root, TRUE)

ReadableDirRoot(c) ==
  GlobRootNode(c).err = "OK" /\ NodeKind(fs, GlobRootNode(c).node) = "dir"

\* the names of the entries of directory node
Children(f, node) == {n \in Names : NodeKind(f, Append(node, n)) # "none"}

OneWildcard(pattern) ==
  /\ ~PatternRoot(pattern)
  /\ Len(PatternParts(pattern)) = 1
  /\ SelectorKind(PatternParts(pattern)[1]) = "W"

\* C11: glob with a one-component wildcard pattern w on a readable directory
\* root does not raise and, when it ends, has yielded exactly the children
\* of root whose names match w, whatever their kind, each once.
C11_SingleWildcardExact ==
  \A c \in CallIds :
     (gc[c].kind = "glob" /\ OneWildcard(gc[c].pattern) /\ ReadableDirRoot(c)) =>
        /\ gc[c].st # "raised"
        /\ gc[c].st = "done" =>
             /\ Range(gc[c].out) =
                  {JoinName(gc[c].root, <<n>>) :
                     n \in {m \in Children(fs, GlobRootNode(c).node) :
                              FnMatch(PatternParts(gc[c].pattern)[1], <<m>>)}}
             /\ NoDuplicates(gc[c].out)

\* / holds the file a and the directory b: glob("a*") yields /a and not /b
C11_Witness ==
  /\ fs[<<"a">>].kind = "file" /\ fs[<<"b">>].kind = "dir"
  /\ gc["A"].kind = "glob" /\ gc["A"].pattern = <<"a", star>>
  /\ gc["A"].root = <<sep>> /\ gc["A"].st = "done"
  /\ gc["A"].out = << <<sep, "a">> >>

RECURSIVE RealTree(_, _)
\* node and the directories below it reached through directories that are
\* not symlinks
RealTree(f, node) ==
  {node} \cup UNION {RealTree(f, Append(node, n)) :
                       n \in {m \in Children(f, node) :
                                NodeKind(f, Append(node, m)) \in DirKinds}}

RECURSIVE RelJoin(_, _)
\* the path of the file reached from path by names
RelJoin(path, names) ==
  IF names = <<>> THEN path
  ELSE RelJoin(JoinName(path, <<Head(names)>>), Tail(names))

\* the entries matching w in the tree of real directories of the root of c
TreeMatches(c, w) ==
  LET top == GlobRootNode(c).node IN
    {RelJoin(gc[c].root, SubSeq(d, Len(top) + 1, Len(d)) \o <<n>>) :
       <<d, n>> \in {x \in RealTree(fs, top) \X Names :
                      x[2] \in Children(fs, x[1]) /\ FnMatch(w, <<x[2]>>)}}

DirRoot(c) ==
  /\ GlobRootNode(c).err = "OK"
  /\ NodeKind(fs, GlobRootNode(c).node) \in DirKinds

\* the is_dir test of some entry of the tree of the root of c raises
\* PermissionError
DeniedEntry(c) ==
  LET top == GlobRootNode(c).node IN
    \E d \in RealTree(fs, top), n \in Names :
       /\ n \in Children(fs, d)
       /\ EntryIsDir(fs, NodeStr(d), n).err = "EACCES"

\* the listing of some directory of the tree of the root of c fails with an
\* error other than PermissionError
FaultyInTree(c) ==
  \E d \in RealTree(fs, GlobRootNode(c).node) : NodeKind(fs, d) = "faulty"

\* C12 as stated: rglob with a one-component wildcard pattern w on a
\* directory root yields every entry matching w of root and of every
\* directory below it reached through real directories.
C12_RglobComplete ==
  \A c \in CallIds :
     (gc[c].kind = "rglob" /\ OneWildcard(gc[c].pattern) /\ DirRoot(c)
        /\ gc[c].st = "done")
       => TreeMatches(c, PatternParts(gc[c].pattern)[1]) \subseteq Range(gc[c].out)

\* C12 where no is_dir test is denied: the same, provided the is_dir test of
\* no entry of the tree raises PermissionError and no listing fails with
\* another error; the call then does not raise either.
C12_RglobCompleteUndenied ==
  \A c \in CallIds :
     (gc[c].kind = "rglob" /\ OneWildcard(gc[c].pattern) /\ DirRoot(c)
        /\ ~DeniedEntry(c) /\ ~FaultyInTree(c))
       => /\ gc[c].st # "raised"
          /\ gc[c].st = "done" =>
               TreeMatches(c, PatternParts(gc[c].pattern)[1]) \subseteq Range(gc[c].out)

\* / holds the file a and the directory b, b the file a: rglob("*") yields
\* /a, /b and /b/a
C12_Witness ==
  /\ fs[<<"a">>].kind = "file" /\ fs[<<"b">>].kind = "dir"
  /\ fs[<<"b", "a">>].kind = "file"
  /\ gc["A"].kind = "rglob" /\ gc["A"].pattern = <<star>>
  /\ gc["A"].root = <<sep>> /\ gc["A"].st = "done"
  /\ Range(gc["A"].out) = {<<sep, "a">>, <<sep, "b">>, <<sep, "b", sep, "a">>}

\* C13: on the same unchanging filesystem, for every non-empty relative
\* pattern, glob("**/" + pattern) has the selectors of rglob(pattern) and
\* ends the way rglob(pattern) ended: the same paths in the same order, or
\* the same error.
C13_RglobIsPrefixedGlob ==
  (/\ gc["A"].kind = "rglob"
   /\ gc["B"].kind = "glob"
   /\ gc["B"].pattern = StarStar \o <<sep>> \o gc["A"].pattern
   /\ gc["B"].root = gc["A"].root)
    => /\ gc["B"].sel = gc["A"].sel
       /\ gc["B"].st \in {"done", "raised"} =>
            /\ gc["B"].st = gc["A"].st
            /\ gc["B"].err = gc["A"].err
            /\ gc["B"].out = gc["A"].out

\* rglob("*") and glob("**/*") from / have both yielded /a, /b, /b/a
C13_Witness ==
  /\ gc["A"].kind = "rglob" /\ gc["A"].pattern = <<star>>
  /\ gc["B"].kind = "glob" /\ gc["B"].pattern = <<star, star, sep, star>>
  /\ gc["B"].st = "done"
  /\ gc["B"].out = << <<sep, "a">>, <<sep, "b">>, <<sep, "b", sep, "a">> >>
  /\ gc["A"].out = gc["B"].out

\* C14: the first path glob("**") yields on a directory root is root itself,
\* it has yielded it when it ends, and it raises only where a listing fails
\* with an error other than PermissionError, after it has yielded root.
C14_StarStarYieldsRootFirst ==
  \A c \in CallIds :
     (gc[c].kind = "glob" /\ gc[c].pattern = StarStar /\ DirRoot(c)) =>
        /\ gc[c].st = "raised" => FaultyInTree(c)
        /\ gc[c].out # <<>> => gc[c].out[1] = gc[c].root
        /\ gc[c].st \in {"done", "raised"} => gc[c].out # <<>>

\* /b holds the directory a: glob("**") on /b yields /b, then /b/a
C14_Witness ==
  /\ gc["A"].kind = "glob" /\ gc["A"].pattern = StarStar
  /\ gc["A"].root = <<sep, "b">> /\ gc["A"].st = "done"
  /\ gc["A"].out = << <<sep, "b">>, <<sep, "b", sep, "a">> >>

\* C15: within one call of glob or rglob no path is yielded twice, whatever
\* the pattern, patterns with several '**' components included.
C15_NoDuplicatePaths ==
  \A c \in CallIds : NoDuplicates(gc[c].out)

\* glob("**/**") from / over the directory b, which both '**' reach: / and /b
\* are yielded once each
C15_Witness ==
  /\ fs[<<"b">>].kind = "dir" /\ fs[<<"a">>].kind = "file"
  /\ fs[<<"b", "a">>].kind = "none"
  /\ gc["A"].kind = "glob" /\ gc["A"].pattern = <<star, star, sep, star, star>>
  /\ gc["A"].root = <<sep>> /\ gc["A"].st = "done"
  /\ gc["A"].out = << <<sep>>, <<sep, "b">> >>

\* some directory of the tree of the root of c cannot be listed for want of
\* permission
LockedInTree(c) ==
  \E d \in RealTree(fs, GlobRootNode(c).node) : NodeKind(fs, d) = "locked"

GlobEnded(c) == gc[c].st \in {"done", "raised"}

\* C16: a PermissionError raised by the listing of a directory never reaches
\* the caller of glob or rglob (the only PermissionError a call raises is
\* that of the is_dir test of its root, before anything is listed) and
\* nothing below that directory is yielded; the other directories are still
\* enumerated (rglob of a wildcard over a tree with an unlistable directory
\* still yields every matching entry of the tree); and a listing that fails
\* with another OSError ends the call with that error.
C16_PermissionErrorLocal ==
  \A c \in CallIds :
     /\ (gc[c].st = "raised" /\ gc[c].err = "EACCES") =>
          (gc[c].steps = 1 /\ gc[c].out = <<>> /\ IsDir(fs, gc[c].root).err = "EACCES")
     /\ \A i \in 1..Len(gc[c].out) : Lookup(fs, gc[c].out[i], FALSE).err # "EACCES"
     /\ (gc[c].kind = "rglob" /\ OneWildcard(gc[c].pattern) /\ DirRoot(c)
           /\ LockedInTree(c) /\ ~DeniedEntry(c) /\ ~FaultyInTree(c)) =>
          /\ gc[c].st # "raised"
          /\ gc[c].st = "done" =>
               TreeMatches(c, PatternParts(gc[c].pattern)[1]) \subseteq Range(gc[c].out)
     /\ (gc[c].kind = "rglob" /\ gc[c].pattern # <<>> /\ DirRoot(c)
           /\ FaultyInTree(c) /\ ~DeniedEntry(c) /\ GlobEnded(c)
           /\ gc[c].err \notin {"ValueError", "NotImplementedError"}) =>
          (gc[c].st = "raised" /\ gc[c].err = "EIO")
     /\ (gc[c].kind = "glob" /\ OneWildcard(gc[c].pattern) /\ DirRoot(c)
           /\ NodeKind(fs, GlobRootNode(c).node) = "faulty" /\ GlobEnded(c)) =>
          (gc[c].st = "raised" /\ gc[c].err = "EIO")

\* /a cannot be listed, /b holds the file a: rglob("*") from / yields /a, /b
\* and /b/a and ends without error
C16_Witness ==
  /\ fs[<<"a">>].kind = "locked" /\ fs[<<"b">>].kind = "dir"
  /\ fs[<<"b", "a">>].kind = "file"
  /\ gc["A"].kind = "rglob" /\ gc["A"].pattern = <<star>>
  /\ gc["A"].root = <<sep>> /\ gc["A"].st = "done"
  /\ gc["A"].out = << <<sep, "a">>, <<sep, "b">>, <<sep, "b", sep, "a">> >>

\* C19: glob and rglob with a valid pattern on a root that is_dir finds not
\* to be a directory (a regular file, a missing path, a symlink that is
\* dangling or loops) do not raise, yield nothing and make no accessor call
\* but that one is_dir: nothing is listed.
C19_NonDirectoryRootIsEmpty ==
  \A c \in CallIds :
     IsDir(fs, gc[c].root) = Answer("OK", FALSE) =>
        /\ gc[c].st \in {"running", "done"} =>
             /\ gc[c].out = <<>>
             /\ gc[c].ncalls <= 1
             /\ gc[c].steps <= 2
             /\ gc[c].ncalls = 1 => (gc[c].stack = <<>> \/ GTop(c).pc = "done")
        /\ gc[c].st = "raised" => gc[c].err \in {"ValueError", "NotImplementedError"}

\* /a is a dangling symlink: rglob("*") on /a ends empty after one call
C19_Witness ==
  /\ fs[<<"a">>] = Node("link", <<"b">>) /\ fs[<<"b">>].kind = "none"
  /\ gc["A"].kind = "rglob" /\ gc["A"].pattern = <<star>>
  /\ gc["A"].root = <<sep, "a">> /\ gc["A"].st = "done"
  /\ gc["A"].out = <<>> /\ gc["A"].ncalls = 1

SameResolve(c, d) ==
  /\ rc[c].input = rc[d].input
  /\ rc[c].strict = rc[d].strict
  /\ rc[c].origin = rc[d].origin
SameGlob(c, d) ==
  /\ gc[c].kind = gc[d].kind
  /\ gc[c].pattern = gc[d].pattern
  /\ gc[c].root = gc[d].root

----------------------------------------------------------------------------
(* Further properties of resolve *)

\* the step of call c reads a candidate that is in no seen entry, and
\* readlink fails on it
ReadFails(c) ==
  /\ Running(c)
  /\ Top(c).names # <<>> /\ IsName(Head(Top(c).names))
  /\ Candidate(c) \notin DOMAIN rc[c].seen
  /\ Readlink(fs, Candidate(c)).err # "OK"

\* the candidate is kept as a literal segment and the loop goes on with the
\* remaining components, in the same frame
KeptLiteral(c) ==
  /\ rc'[c].st = "running"
  /\ Len(rc'[c].stack) = Len(rc[c].stack)
  /\ rc'[c].stack[Len(rc'[c].stack)].path = Candidate(c)
  /\ rc'[c].stack[Len(rc'[c].stack)].names = Tail(Top(c).names)
  /\ rc'[c].seen = rc[c].seen

\* C22: a candidate on which readlink fails with EINVAL is kept as a literal
\* segment in both modes; on any other error a strict call raises that error
\* for that candidate and takes no further step, and a non-strict call keeps
\* the candidate as a literal segment and goes on
C22_StrictVersusLenient ==
  [][\A c \in CallIds :
       /\ (ReadFails(c) /\ Readlink(fs, Candidate(c)).err = "EINVAL")
            => KeptLiteral(c)
       /\ (ReadFails(c) /\ Readlink(fs, Candidate(c)).err # "EINVAL" /\ ~rc[c].strict)
            => KeptLiteral(c)
       /\ (ReadFails(c) /\ Readlink(fs, Candidate(c)).err # "EINVAL" /\ rc[c].strict)
            => (/\ rc'[c].st = "raised"
                /\ rc'[c].err = Readlink(fs, Candidate(c)).err
                /\ rc'[c].errpath = Candidate(c)
                /\ rc'[c].result = None)
       /\ rc[c].st = "raised" => rc'[c] = rc[c]]_vars

\* /a is a directory that cannot be searched: the strict resolve('a/b') has
\* raised EACCES at /a/b after keeping /a
C22_Witness ==
  /\ fs[<<"a">>].kind = "locked"
  /\ rc["A"].strict /\ rc["A"].input = <<"a", sep, "b">>
  /\ rc["A"].st = "raised" /\ rc["A"].err = "EACCES"
  /\ rc["A"].errpath = <<sep, "a", sep, "b">>
  /\ rc["A"].reads = << <<sep, "a">>, <<sep, "a", sep, "b">> >>

\* the keys of the seen dict of call c that map to None
Unresolved(c) == {k \in DOMAIN rc[c].seen : rc[c].seen[k] = None}

\* C23 as stated: in every state of a call, the call that has failed
\* included, the keys mapped to None are exactly the candidates whose
\* symlink target is being resolved
C23_NoneOnlyInProgress ==
  \A c \in CallIds : Unresolved(c) = InProgress(c)

\* C23, where it holds: while a call runs and once it has returned, the keys
\* mapped to None are exactly the candidates whose target is being resolved;
\* a step that reads a symlink maps the candidate to None and enters the
\* recursion, a return of the recursion maps it to the path returned, and
\* a step that raises leaves the dict as it is, its None keys included
C23_NoneWhileInProgress ==
  /\ [](\A c \in CallIds :
          rc[c].st \in {"running", "done"} => Unresolved(c) = InProgress(c))
  /\ [][\A c \in CallIds :
          /\ ReadsLink(c) =>
               /\ Candidate(c) \in Unresolved(c)'
               /\ Len(rc'[c].stack) = Len(rc[c].stack) + 1
          /\ Returns(c) =>
               /\ rc'[c].seen[rc[c].stack[Len(rc[c].stack) - 1].newpath] = Top(c).path
               /\ Unresolved(c)' =
                    Unresolved(c) \ {rc[c].stack[Len(rc[c].stack) - 1].newpath}
          /\ (rc[c].st = "running" /\ rc'[c].st = "raised") =>
               /\ rc'[c].seen = rc[c].seen
               /\ Unresolved(c)' = InProgress(c)]_vars

\* /a is a symlink to 'b' and /b is missing: the strict resolve('/a') has
\* raised ENOENT at /b, and /a is still mapped to None
C23_Witness ==
  /\ IsLink(<<"a">>, <<"b">>) /\ fs[<<"b">>].kind = "none"
  /\ rc["A"].strict /\ rc["A"].input = <<sep, "a">>
  /\ rc["A"].st = "raised" /\ rc["A"].err = "ENOENT"
  /\ rc["A"].seen = DictSet(<<>>, <<sep, "a">>, None)

\* C24: a step that reads a symlink starts the resolution of its target
\* from the accumulated path of the directory that holds the symlink when
\* the target is relative and from '' when it is absolute, with the
\* components of the target text as the names to walk; and the path a
\* strict first call returns is the node the operating system's own walk,
\* which resolves a relative target in the directory holding the symlink,
\* reaches from the same path
C24_TargetBase ==
  /\ [][\A c \in CallIds :
          ReadsLink(c) =>
             LET target == Readlink(fs, Candidate(c)).target
                 frame == rc'[c].stack[Len(rc'[c].stack)]
             IN /\ Len(rc'[c].stack) = Len(rc[c].stack) + 1
                /\ frame.names = Split(target)
                /\ frame.path = IF StartsWithSep(target) THEN <<>> ELSE Top(c).path]_vars
  /\ [](\A c \in CallIds :
          (/\ rc[c].st = "done" /\ rc[c].strict /\ rc[c].round = 1
           /\ Lookup(fs, rc[c].origin, TRUE).err = "OK")
             => rc[c].result = NodeStr(Lookup(fs, rc[c].origin, TRUE).node))

\* /b is a directory and /b/a a symlink to '..': the strict resolve('/b/a')
\* returns '/', the parent of /b, not /b
C24_Witness ==
  /\ fs[<<"b">>].kind = "dir" /\ IsLink(<<"b", "a">>, <<dotdot>>)
  /\ rc["A"].strict /\ rc["A"].input = <<sep, "b", sep, "a">>
  /\ rc["A"].round = 1 /\ rc["A"].st = "done"
  /\ rc["A"].result = <<sep>>

\* C25: resolve, with its memo map, ends as the resolver that reads every
\* symlink again each time it is met ends, with the same path or the same
\* error for the same candidate; and no candidate is read as a symlink
\* twice within one call of resolve
C25_MemoIsAmortization ==
  /\ (Ended("A") /\ Ended("B")) =>
        /\ rc["A"].st = rc["B"].st
        /\ rc["A"].result = rc["B"].result
        /\ rc["A"].fres = rc["B"].fres
        /\ rc["A"].err = rc["B"].err
        /\ rc["A"].errpath = rc["B"].errpath
  /\ NoDuplicates(rc["A"].entered)
  /\ \A k \in DOMAIN rc["A"].seen :
        rc["A"].seen[k] # None => k \notin InProgress("A")

\* /a is a symlink to 'b/a/a', /b a directory and /b/a a symlink to '.':
\* both resolvers return /b for /a; resolve read /b/a once and took it
\* from the map the second time, the reference read it twice
C25_Witness ==
  /\ IsLink(<<"a">>, <<"b", sep, "a", sep, "a">>)
  /\ fs[<<"b">>].kind = "dir" /\ IsLink(<<"b", "a">>, <<dot>>)
  /\ rc["A"].input = <<sep, "a">>
  /\ rc["A"].st = "done" /\ rc["B"].st = "done"
  /\ rc["A"].result = <<sep, "b">> /\ rc["B"].result = <<sep, "b">>
  /\ rc["A"].entered = << <<sep, "a">>, <<sep, "b", sep, "a">> >>
  /\ rc["B"].entered =
       << <<sep, "a">>, <<sep, "b", sep, "a">>, <<sep, "b", sep, "a">> >>

----------------------------------------------------------------------------
(* Further properties of glob *)

\* the wildcard selector of call c, for a component that is not the last,
\* is about to classify the next entry of its listing
ClassifiesEntry(c) == AtEntry(c) /\ GSel(c).dironly
EntryClass(c) == EntryIsDir(fs, GTop(c).path, Head(GTop(c).entries))

\* only the entry at hand is skipped: the same generator goes on with the
\* remaining entries of the listing
EntrySkipped(c) ==
  /\ gc'[c].st = "running"
  /\ Len(gc'[c].stack) = Len(gc[c].stack)
  /\ gc'[c].stack[Len(gc'[c].stack)].pc = "loop"
  /\ gc'[c].stack[Len(gc'[c].stack)].entries = Tail(GTop(c).entries)
  /\ gc'[c].out = gc[c].out

\* C26 as stated: a permission error of the classification reaches the
\* caller of glob; any other failure of it, and an entry that is not a
\* directory, skips that entry only
C26_ClassifyErrorSurfaces ==
  [][\A c \in CallIds :
       /\ (ClassifiesEntry(c) /\ EntryClass(c).err = "EACCES") =>
             (gc'[c].st = "raised" /\ gc'[c].err = "EACCES")
       /\ (ClassifiesEntry(c) /\ EntryClass(c).err \in IgnoredErrors) =>
             EntrySkipped(c)
       /\ (ClassifiesEntry(c) /\ EntryClass(c).err = "OK" /\ ~EntryClass(c).val) =>
             EntrySkipped(c)]_vars

\* C26, what the selector does: a permission error of the classification
\* leaves the inner handler and is caught by the handler around the loop,
\* so the call goes on without an error and the remaining entries of that
\* listing are dropped; any other failure of the classification, and an
\* entry that is not a directory, skips that entry only
C26_ClassifyErrorEndsListing ==
  [][\A c \in CallIds :
       /\ (ClassifiesEntry(c) /\ EntryClass(c).err = "EACCES") =>
             /\ gc'[c].st = "running"
             /\ Len(gc'[c].stack) = Len(gc[c].stack)
             /\ gc'[c].stack[Len(gc'[c].stack)].pc = "done"
             /\ gc'[c].out = gc[c].out
       /\ (ClassifiesEntry(c) /\ EntryClass(c).err \in IgnoredErrors) =>
             EntrySkipped(c)
       /\ (ClassifiesEntry(c) /\ EntryClass(c).err = "OK" /\ ~EntryClass(c).val) =>
             EntrySkipped(c)
       /\ gc[c].st = "running" /\ gc'[c].st = "raised" => gc'[c].err # "EACCES"
                                                         \/ AtIsDir(c)]_vars

\* /a is a symlink to 'b/a/a', /b a directory and /b/a a directory that
\* cannot be searched: glob('*/a') on / has ended without an error and
\* without /b/a, because classifying /a ended the listing of /
C26_Witness ==
  /\ IsLink(<<"a">>, <<"b", sep, "a", sep, "a">>)
  /\ fs[<<"b">>].kind = "dir" /\ fs[<<"b", "a">>].kind = "locked"
  /\ gc["A"].kind = "glob" /\ gc["A"].pattern = <<star, sep, "a">>
  /\ gc["A"].root = <<sep>>
  /\ gc["A"].st = "done" /\ gc["A"].out = <<>>

RECURSIVE PreOrder(_, _)
RECURSIVE PreOrderOf(_, _, _)
\* node, then the directories below it that are reached through children
\* that are directories and not symlinks, parents first, siblings in the
\* order of the listing
PreOrder(f, node) == <<node>> \o PreOrderOf(f, node, NameOrder)
PreOrderOf(f, node, names) ==
  IF names = <<>> THEN <<>>
  ELSE (IF NodeKind(f, Append(node, Head(names))) \in DirKinds
        THEN PreOrder(f, Append(node, Head(names)))
        ELSE <<>>) \o PreOrderOf(f, node, Tail(names))

\* the same as paths below the root of call c
PreOrderPaths(c) ==
  LET top == GlobRootNode(c).node
      nodes == PreOrder(fs, top)
  IN [i \in 1..Len(nodes) |->
        RelJoin(gc[c].root, SubSeq(nodes[i], Len(top) + 1, Len(nodes[i])))]

\* p names a directory that is not a symlink
RealDirectory(p) ==
  /\ Lookup(fs, p, FALSE).err = "OK"
  /\ NodeKind(fs, Lookup(fs, p, FALSE).node) \in DirKinds

StarStarOnDir(c) ==
  gc[c].kind = "glob" /\ gc[c].pattern = StarStar /\ DirRoot(c)

\* C27 as stated: glob("**") on a directory root yields the root followed,
\* in pre-order, by exactly the directories reached from it through
\* children that are directories and not symlinks, and every path it yields
\* is a directory that is not a symlink
C27_StarStarExactRealDirs ==
  \A c \in CallIds :
     StarStarOnDir(c) =>
        /\ gc[c].st = "done" => gc[c].out = PreOrderPaths(c)
        /\ \A i \in 1..Len(gc[c].out) : RealDirectory(gc[c].out[i])

\* C27, what holds: glob("**") on a directory root yields paths of that
\* pre-order only, in that order, so nothing reached through a symlink
\* below the root; every path it yields other than the root, which is
\* passed on as it was given, is a directory that is not a symlink; and it
\* yields the whole pre-order when it ends, provided the is_dir test of no
\* entry raises PermissionError and no listing fails
C27_StarStarOnlyRealDirs ==
  \A c \in CallIds :
     StarStarOnDir(c) =>
        /\ gc[c].out = SelectSeq(PreOrderPaths(c), LAMBDA p : p \in Range(gc[c].out))
        /\ \A i \in 1..Len(gc[c].out) :
              gc[c].out[i] # gc[c].root => RealDirectory(gc[c].out[i])
        /\ (gc[c].st = "done" /\ ~DeniedEntry(c) /\ ~FaultyInTree(c)) =>
              gc[c].out = PreOrderPaths(c)

\* /a is a symlink to 'b', /b a directory holding the directory a:
\* glob("**") on / yields /, /b and /b/a, and neither /a nor /a/a
C27_Witness ==
  /\ IsLink(<<"a">>, <<"b">>)
  /\ fs[<<"b">>].kind = "dir" /\ fs[<<"b", "a">>].kind = "dir"
  /\ gc["A"].kind = "glob" /\ gc["A"].pattern = StarStar
  /\ gc["A"].root = <<sep>> /\ gc["A"].st = "done"
  /\ gc["A"].out = << <<sep>>, <<sep, "b">>, <<sep, "b", sep, "a">> >>

\* the one child a precise selector at work builds, and what stat says of it
PreciseChild(c) == JoinName(GTop(c).path, GSel(c).pat)
PreciseLast(c) == GTop(c).idx = Len(gc[c].sel)
PreciseStat(c) == Lookup(fs, PreciseChild(c), TRUE)
PrecisePasses(c) ==
  /\ PreciseStat(c).err = "OK"
  /\ PreciseLast(c) \/ NodeKind(fs, PreciseStat(c).node) \in DirKinds

\* the frames below the running one, which a step of the running generator
\* leaves as they are
Suspended(stack) == SubSeq(stack, 1, Len(stack) - 1)

----------------------------------------------------------------------------
(* Properties of the file handle *)

\* what the file holds as the handle's mode presents it: bytes or text
HandleView == IF fh.binary THEN fh.file ELSE Decode(fh.file).data

\* every call made on the handle so far is read(n) with no offset
PlainReads(n) ==
  /\ fh.log # <<>>
  /\ \A i \in 1..Len(fh.log) :
       fh.log[i].op = "read" /\ fh.log[i].dflt /\ fh.log[i].size = n

\* a call given no offset starts at 0 on a fresh handle and else where the
\* previous call, if it returned, ended: its offset plus the length of its data
StartsWherePreviousEnded ==
  \A i \in 1..Len(fh.log) :
     fh.log[i].dflt =>
        /\ i = 1 => fh.log[i].at = 0
        /\ (i > 1 /\ fh.log[i - 1].err = "OK") =>
              fh.log[i].at = fh.log[i - 1].at + Len(fh.log[i - 1].data)

\* successive read(n) calls return content[0:n], content[n:2n], ...
ReadsAreSlices ==
  \A n \in 1..MaxReadSize :
     PlainReads(n) =>
        \A i \in 1..Len(fh.log) :
           /\ fh.log[i].err = "OK"
           /\ fh.log[i].data = ReadBytes(HandleView, n, (i - 1) * n)

\* every character of the file's text is encoded in one byte
SingleByteText == \A i \in 1..Len(fh.file) : fh.file[i] \in {"x", "y"}

\* C20 as stated: a read given no offset starts where the previous read or
\* write on the handle ended, and successive read(n) calls return
\* content[0:n], content[n:2n], ... in text mode and in binary mode
C20_ReadsConsecutive ==
  /\ StartsWherePreviousEnded
  /\ ReadsAreSlices

\* C20, where it holds: a read given no offset starts where the previous
\* read or write ended, and successive read(n) calls return content[0:n],
\* content[n:2n], ... on a binary handle, and on a text handle whose file
\* holds one-byte characters only
C20_ReadsConsecutiveSingleByte ==
  /\ StartsWherePreviousEnded
  /\ (fh.binary \/ SingleByteText) => ReadsAreSlices

\* a text handle on 'xyx': read(1) has returned 'x' and then 'y'
C20_Witness ==
  /\ ~fh.binary
  /\ fh.file = <<"x", "y", "x">>
  /\ Len(fh.log) = 2
  /\ PlainReads(1)
  /\ fh.log[1].data = <<"x">>
  /\ fh.log[2].data = <<"y">>
  /\ fh.offset = 2

----------------------------------------------------------------------------
(* Properties of the Windows resolve *)

\* the path cut to its first k components, as the loop shortens it
WinPrefix(path, k) ==
  IF k = Len(path.comps) THEN WinStr(path)
  ELSE path.drive \o path.root \o JoinBs(SubSeq(path.comps, 1, k))

WinFound(k) == GetFinalPathName(win.f, win.cwd, WinPrefix(win.path, k))

\* the prefixes of the path the final-path lookup does not report missing
WinKnown == {k \in 0..Len(win.path.comps) : WinFound(k).err # "ENOENT"}

WinLongest == CHOOSE k \in WinKnown : \A j \in WinKnown : j <= k

\* the canonical path of the longest prefix found, followed by the
\* components cut off, in the order they have in the path
WinExpected ==
  LET base == Tail(WinFound(WinLongest).final)
      rest == SubSeq(win.path.comps, WinLongest + 1, Len(win.path.comps))
  IN IF rest = <<>> THEN base
     ELSE IF base[Len(base)] = bs THEN base \o JoinBs(rest)
     ELSE base \o <<bs>> \o JoinBs(rest)

\* C29: the non-strict Windows resolve ends after at most one lookup per
\* component of the path and two more: a turn of its loop that does not end
\* the call was answered 'not found' and leaves a strictly shorter prefix
\* of the string it looked up.  When it returns a string, that string is
\* the canonical path of the longest prefix the lookup finds, joined with
\* the components cut off, in their original order; when it returns the
\* path it was given, the lookup found no prefix and the last split left the
\* string as it was; when it raises, the lookup failed otherwise than with
\* 'not found'.
C29_WindowsLenientEnds ==
  /\ [][(win.st = "running" /\ ~win.strict /\ win' # win) =>
          /\ win'.lookups = win.lookups + 1
          /\ win'.st = "running" =>
               /\ GetFinalPathName(win.f, win.cwd, win.s).err = "ENOENT"
               /\ Len(win'.s) < Len(win.s)
               /\ IsPrefix(win'.s, win.s)
               /\ win'.tail_parts = Append(win.tail_parts, NtSplit(win.s).tail)
          /\ (win'.st = "done" /\ win'.returns = "path") =>
               NtSplit(win.s).head = win.s]_vars
  /\ [](~win.strict =>
          /\ win.lookups <= Len(win.path.comps) + 2
          /\ (win.st = "done" /\ win.returns = "str") =>
               /\ WinKnown # {} /\ WinFound(WinLongest).err = "OK"
               /\ win.result = WinExpected
          /\ (win.st = "done" /\ win.returns = "path") =>
               /\ WinKnown = {}
               /\ win.result = WinStr(win.path)
          /\ win.st = "raised" =>
               /\ WinKnown # {}
               /\ win.err = WinFound(WinLongest).err /\ win.err \notin {"OK", "ENOENT"})

\* a\b was asked for where only a exists below the current directory C:\b:
\* the second lookup found C:\b\a and the call returned C:\b\a\b
C29_Witness ==
  /\ win.st = "done" /\ ~win.strict /\ win.returns = "str"
  /\ win.path = [drive |-> <<>>, root |-> <<>>, comps |-> <<"a", "b">>]
  /\ win.cwd = <<"b">> /\ win.lookups = 2
  /\ win.result = <<"C:", bs, "b", bs, "a", bs, "b">>

----------------------------------------------------------------------------
(* Properties of mkdir *)

\* the path and the directories above it, the root left out
MkChain(p) == {SubSeq(p, 1, i) : i \in 1..Len(p)}

\* the first os.mkdir of call c is about to run and will find the parent of
\* the path missing
MkParentMissing(c) ==
  /\ MkRunning(c) /\ Len(mk.calls[c].stack) = 1 /\ MkTop(c).pc = "mkdir"
  /\ mk.calls[c].created = {}
  /\ OsMkdir(mk.tree, mk.calls[c].path) = "ENOENT"

MkSameLenient ==
  /\ mk.calls["A"].st # "idle" /\ mk.calls["B"].st # "idle"
  /\ mk.calls["A"].path = mk.calls["B"].path
  /\ \A c \in MkCalls : mk.calls[c].parents /\ mk.calls[c].exist_ok

\* C30: where the parent of the path is missing, a step of mkdir without
\* parents raises FileNotFoundError and leaves the tree as it was, and a
\* step of mkdir with parents goes on to make the parent.  A call that
\* returns leaves the path and every directory above it a directory, and
\* each of them that was missing at the start was made by one of the calls;
\* a call never makes anything outside the chain of its path, and nothing
\* is ever unmade.  Two calls with parents and exist_ok on the same path,
\* none of whose ancestors is a file and which is not a file itself, never
\* raise, however their steps interleave.
C30_MkdirParents ==
  /\ [][\A c \in MkCalls :
          (MkParentMissing(c) /\ mk'.calls[c] # mk.calls[c]) =>
             IF mk.calls[c].parents
             THEN /\ mk'.calls[c].st = "running"
                  /\ mk'.tree = mk.tree
                  /\ mk'.calls[c].stack[2] = MkFrame(Parent(mk.calls[c].path), TRUE, TRUE)
             ELSE /\ mk'.calls[c].st = "raised"
                  /\ mk'.calls[c].err = "ENOENT"
                  /\ mk'.calls[c].created = {}
                  /\ mk'.tree = mk.tree]_vars
  /\ [](\A c \in MkCalls :
          /\ mk.calls[c].created \subseteq MkChain(mk.calls[c].path)
          /\ \A p \in MkNodes : mk.tree0[p] # "none" => mk.tree[p] = mk.tree0[p]
          /\ mk.calls[c].st = "done" =>
               \A p \in MkChain(mk.calls[c].path) :
                  /\ mk.tree[p] = "dir"
                  /\ mk.tree0[p] = "none" =>
                       \E d \in MkCalls : p \in mk.calls[d].created
          /\ (mk.calls[c].st = "done" /\ ~mk.calls[c].parents
                /\ mk.calls[c].path # Root) =>
               mk.calls[c].created \subseteq {mk.calls[c].path})
  /\ [](( /\ MkSameLenient
          /\ \A p \in MkChain(mk.calls["A"].path) : mk.tree0[p] # "file") =>
            \A c \in MkCalls : mk.calls[c].st # "raised")

\* two calls with parents and exist_ok on a/a/a in an empty tree have both
\* returned, each having made a part of the chain
C30_Witness ==
  /\ MkSameLenient
  /\ mk.calls["A"].path = <<"a", "a", "a">>
  /\ \A p \in MkNodes : mk.tree0[p] = "none"
  /\ mk.calls["A"].st = "done" /\ mk.calls["B"].st = "done"
  /\ mk.calls["A"].created # {} /\ mk.calls["B"].created # {}

----------------------------------------------------------------------------
(* Properties of reading and writing a path *)

\* C21: read_text() after write_text(t) has returned returns t, and
\* read_bytes() after write_bytes(b) has returned returns b, whatever the
\* path held before: once a write has returned the path holds what was
\* written and nothing after it.
C21_WriteReadRoundTrip ==
  /\ rw.wrote.op = "write_text" =>
       /\ rw.file = Encode(rw.wrote.data)
       /\ rw.got.op = "read_text" => rw.got.data = rw.wrote.data
  /\ rw.wrote.op = "write_bytes" =>
       /\ rw.file = rw.wrote.data
       /\ rw.got.op = "read_bytes" => rw.got.data = rw.wrote.data

\* a text of two lines holding a two-byte character was written to a path
\* that held more bytes than the text takes, and read back
C21_Witness ==
  /\ rw.wrote = RwCall("write_text", <<nl, "W">>)
  /\ rw.got = RwCall("read_text", <<nl, "W">>)
  /\ rw.held > Len(rw.file)

====
